---- MODULE Spec2Model ----
(***************************************************************************)
(* The automatic allocator of HyperQueue (server/autoalloc/process.rs).    *)
(*                                                                         *)
(* autoalloc_tick runs process_descriptor for every descriptor at once     *)
(* (join_all) on a single-threaded executor: the shared state changes only *)
(* between two awaits of a handler future, so every action of this model   *)
(* is the completion of one awaited handler call followed by everything    *)
(* the code does up to its next await.                                     *)
(***************************************************************************)
EXTENDS Integers, Sequences, FiniteSets, TLC

(* ---------------------------- bounds ----------------------------------- *)
MaxBacklog == 2         \* largest configured backlog
MaxWorkers == 2         \* largest configured workers_per_alloc
MaxTicks == 2           \* autoalloc ticks explored by Spec
LongTicks == 3          \* autoalloc ticks explored by SpecLong
LifeTicks == 4          \* autoalloc ticks explored by SpecLife
ServerTicks == 2        \* autoalloc ticks explored by SpecServer
Timelimit == 2          \* time limit of the queue (abstract time units)
MaxAllocs == 3          \* allocations a handler accepts before it only fails
EventCap == 2           \* capacity of the bounded per-descriptor event log

NoAlloc == -1

VARIABLES
    descriptors,  \* AutoAllocState: descriptor id -> DescriptorState and the
                  \* frame of its process_descriptor future (see InitDescriptor)
    ticks,        \* number of autoalloc_tick calls started so far
    shutdown,     \* the autoalloc_shutdown future: its position (pc), the
                  \* handler.remove_allocation calls it has made (calls:
                  \* <<descriptor, allocation>> -> number of calls), the calls
                  \* still awaited (pending) and the ones that failed (failed)
    jobs,         \* State::jobs(): the jobs of the server where the
                  \* specification follows them (a sequence of Job), AnyJobs
                  \* where they are left to the environment
    core,         \* the Core of the scheduler (tako) with its TestComm: see
                  \* InitCore
    client,       \* one run of the autoalloc command of the client: see
                  \* InitClient
    lc_state,     \* the LocalCommState of a worker: see InitLocalComm
    jobfile       \* one run of the submission of a job file: see InitJobFile

vars == <<descriptors, ticks, shutdown, jobs, core, client, lc_state, jobfile>>

(* ------------------------- plain helpers ------------------------------- *)
\* u32::saturating_sub / u64::saturating_sub
saturating_sub(a, b) == IF a > b THEN a - b ELSE 0

(* --------------------------- job set ----------------------------------- *)
\* The jobs of the server as schedule_new_allocations may find them
\* (State::jobs()): each job has the minimal time its tasks request and a
\* number of waiting tasks.
Job(min_time, n_waiting) == [min_time |-> min_time, n_waiting |-> n_waiting]

JobSets ==
    { << >>,
      << Job(0, MaxBacklog * MaxWorkers) >>,
      << Job(Timelimit, 1), Job(Timelimit + 1, 2) >>,
      << Job(Timelimit - 1, 1), Job(Timelimit, 2) >>,
      << Job(0, 1), Job(Timelimit - 1, 2) >> }

\* The jobs of the server are not followed: a read of State::jobs() may find
\* any of JobSets.
AnyJobs == "any"

\* State::jobs() as a step may read it.
state_jobs == IF jobs = AnyJobs THEN JobSets ELSE {jobs}

\* (mutant) a job that asks for exactly the time limit is taken as feasible
can_provide_worker_inclusive(job, queue_info) == job.min_time <= queue_info.timelimit

\* Find out if workers spawned in this queue can possibly provide
\* computational resources for tasks of this job.
can_provide_worker(job, queue_info) == job.min_time < queue_info.timelimit

RECURSIVE count_from(_, _, _)
count_from(js, queue_info, i) ==
    IF i > Len(js) THEN 0
    ELSE (IF can_provide_worker(js[i], queue_info) THEN js[i].n_waiting ELSE 0)
         + count_from(js, queue_info, i + 1)

count_available_tasks(js, queue_info) == count_from(js, queue_info, 1)

(* ------------------------ descriptor state ----------------------------- *)
Event(kind, id) == [kind |-> kind, id |-> id]

is_active(alloc) == alloc.status \in {"Queued", "Running"}

all_allocations(s) == DOMAIN s.allocations

active_allocations(s) == { a \in DOMAIN s.allocations : is_active(s.allocations[a]) }

queued_allocations(s) == { a \in DOMAIN s.allocations : s.allocations[a].status = "Queued" }

\* The event log is a bounded ring: the oldest event is dropped when full.
add_event(s, ev) ==
    LET log == Append(s.events, ev)
    IN [s EXCEPT !.events = IF Len(log) > EventCap THEN Tail(log) ELSE log]

add_allocation(s, id, alloc) ==
    [s EXCEPT !.allocations = [a \in DOMAIN s.allocations \cup {id} |->
                                  IF a = id THEN alloc ELSE s.allocations[a]]]

remove_allocation(s, id) ==
    [s EXCEPT !.allocations = [a \in DOMAIN s.allocations \ {id} |-> s.allocations[a]]]

set_status(s, id, status) ==
    [s EXCEPT !.allocations[id].status = status]

(* ------------------- process_descriptor, step by step ------------------ *)
\* A descriptor as the model keeps it: the DescriptorState of the autoalloc
\* state (info, allocations, events), the state of its handler (next_id) and
\* the frame of its process_descriptor future (pc, allocation_ids,
\* allocation_id, iterations_left, waiting_tasks). The code does not read the
\* other fields. removed tells that the descriptor was removed from the
\* autoalloc state (its future may still be suspended), in_flight counts the
\* handler calls of the tick that were made and have not returned. requeued holds the Queued allocations that were Running
\* before. The t_ fields record what the current tick has done so far:
\* t_allocs and t_queued_start count the allocations and the Queued ones when
\* the tick started, t_all_queued tells that every status answer was Queued,
\* t_status_fails counts the Err answers; t_scheduled tells that the schedule
\* phase has begun, t_jobs, t_count, t_queued and t_waiting are the jobs, the
\* number of allocations, the number of Queued allocations and the count of
\* waiting tasks when it began; t_calls, t_oks and t_errs count the
\* schedule_allocation calls made, succeeded and failed.
InitDescriptor(backlog, workers_per_alloc, timelimit) ==
    [ info |-> [backlog |-> backlog, workers_per_alloc |-> workers_per_alloc,
                timelimit |-> timelimit],
      allocations |-> << >>,
      events |-> << >>,
      next_id |-> 0,
      pc |-> "idle",
      allocation_ids |-> {},
      allocation_id |-> NoAlloc,
      iterations_left |-> 0,
      waiting_tasks |-> 0,
      removed |-> FALSE,
      in_flight |-> 0,
      requeued |-> {},
      t_allocs |-> 0,
      t_queued_start |-> 0,
      t_all_queued |-> TRUE,
      t_status_fails |-> 0,
      t_scheduled |-> FALSE,
      t_jobs |-> << >>,
      t_count |-> 0,
      t_queued |-> 0,
      t_waiting |-> 0,
      t_calls |-> 0,
      t_oks |-> 0,
      t_errs |-> 0 ]

\* process_descriptor returns: the future of the descriptor is complete.
finish(s) ==
    [s EXCEPT !.pc = "idle", !.allocation_id = NoAlloc, !.iterations_left = 0,
              !.waiting_tasks = 0]

\* (mutant) the Queued allocations are not subtracted from the backlog
allocations_to_create_ignoring_queue(s) == s.info.backlog

\* (mutant) one allocation more than the backlog has room for
allocations_to_create_plus_one(s) ==
    saturating_sub(s.info.backlog + 1, Cardinality(queued_allocations(s)))

\* (mutant) the subtraction does not saturate: the distance between the
\* backlog and the number of Queued allocations
allocations_to_create_unsaturated(s) ==
    IF s.info.backlog >= Cardinality(queued_allocations(s))
    THEN s.info.backlog - Cardinality(queued_allocations(s))
    ELSE Cardinality(queued_allocations(s)) - s.info.backlog

\* The number of iterations of the scheduling loop.
allocations_to_create(s) ==
    saturating_sub(s.info.backlog, Cardinality(queued_allocations(s)))

\* Head of the loop `for _ in 0..allocations_to_create`: either the loop is
\* over or the next schedule_allocation call is made and awaited.
next_iteration(s) ==
    IF s.iterations_left = 0 THEN finish(s)
    ELSE [s EXCEPT !.pc = "schedule",
                   !.iterations_left = @ - 1,
                   !.in_flight = @ + 1,
                   !.t_calls = @ + 1]

\* The frame of schedule_new_allocations once the queued allocations and the
\* waiting tasks are counted.
schedule_frame(s, js) ==
    [s EXCEPT !.waiting_tasks = count_available_tasks(js, s.info),
              !.iterations_left = allocations_to_create(s),
              !.t_scheduled = TRUE,
              !.t_jobs = js,
              !.t_count = Cardinality(all_allocations(s)),
              !.t_queued = Cardinality(queued_allocations(s)),
              !.t_waiting = count_available_tasks(js, s.info)]

\* (mutant) the loop is entered although no task is waiting
schedule_new_allocations_unchecked(s, js) == next_iteration(schedule_frame(s, js))

\* schedule_new_allocations up to its first await.
schedule_new_allocations(s, js) ==
    IF schedule_frame(s, js).waiting_tasks = 0
    THEN finish(schedule_frame(s, js))
    ELSE next_iteration(schedule_frame(s, js))

\* (mutant) schedule_new_allocations starts although allocations are left to
\* be queried
next_status_skipping(s, js) ==
    schedule_new_allocations([s EXCEPT !.allocation_id = NoAlloc], js)

\* (mutant) the allocation that is queried stays in the list of the
\* allocations to query
next_status_repeating(s, js) ==
    IF s.allocation_ids = {}
    THEN schedule_new_allocations([s EXCEPT !.allocation_id = NoAlloc], js)
    ELSE LET a == CHOOSE x \in s.allocation_ids : \A y \in s.allocation_ids : x <= y
         IN [s EXCEPT !.pc = "status",
                      !.allocation_id = a,
                      !.in_flight = @ + 1]

\* Head of the loop over allocation_ids in refresh_allocations: the next
\* get_allocation_status call is made and awaited, or the refresh is over and
\* process_descriptor goes on with schedule_new_allocations, which finds the
\* jobs js on the server. The ids are taken in ascending order: the refresh of
\* one allocation reads and writes no other allocation, and the map of the
\* code iterates in an order of its own.
next_status(s, js) ==
    IF s.allocation_ids = {}
    THEN schedule_new_allocations([s EXCEPT !.allocation_id = NoAlloc], js)
    ELSE LET a == CHOOSE x \in s.allocation_ids : \A y \in s.allocation_ids : x <= y
         IN [s EXCEPT !.pc = "status",
                      !.allocation_id = a,
                      !.in_flight = @ + 1,
                      !.allocation_ids = @ \ {a}]

\* refresh_allocations up to its first await: collect the ids of the active
\* allocations and query the first one.
refresh_allocations(s, js) ==
    next_status([s EXCEPT !.allocation_ids = active_allocations(s),
                          !.t_allocs = Cardinality(all_allocations(s)),
                          !.t_queued_start = Cardinality(queued_allocations(s)),
                          !.t_all_queued = TRUE,
                          !.t_status_fails = 0,
                          !.t_scheduled = FALSE,
                          !.t_jobs = << >>,
                          !.t_count = 0,
                          !.t_queued = 0,
                          !.t_waiting = 0,
                          !.t_calls = 0,
                          !.t_oks = 0,
                          !.t_errs = 0], js)

\* (mutant) the refresh of the descriptor is given up after a failed call
on_status_err_return(s) ==
    [add_event(s, Event("StatusFail", NoAlloc)) EXCEPT !.allocation_ids = {}]

\* What refresh_allocations does with Err(err).
on_status_err(s) == add_event(s, Event("StatusFail", NoAlloc))

\* (mutant) the allocation that disappeared is kept in the map
on_status_none_kept(s, id) == add_event(s, Event("AllocationDisappeared", id))

\* What refresh_allocations does with Ok(None).
on_status_none(s, id) ==
    add_event(remove_allocation(s, id), Event("AllocationDisappeared", id))

\* (mutant) AllocationStarted is logged whatever the stored status is
on_status_running_logged(s, id) ==
    IF id \notin DOMAIN s.allocations THEN s
    ELSE set_status(add_event(s, Event("AllocationStarted", id)), id, "Running")

\* What refresh_allocations does with Ok(Some(Running)).
on_status_running(s, id) ==
    IF id \notin DOMAIN s.allocations THEN s
    ELSE LET u == IF s.allocations[id].status = "Queued"
                  THEN add_event(s, Event("AllocationStarted", id))
                  ELSE s
         IN set_status(u, id, "Running")

\* (mutant) the event of a finished or failed allocation is logged, its
\* status is left as it is
on_status_ended_unrecorded(s, id, status) ==
    add_event(s, Event(IF status = "Finished" THEN "AllocationFinished"
                       ELSE "AllocationFailed", id))

\* What refresh_allocations does with Ok(Some(Finished)) and Ok(Some(Failed)).
on_status_ended(s, id, status) ==
    LET u == add_event(s, Event(IF status = "Finished" THEN "AllocationFinished"
                                ELSE "AllocationFailed", id))
    IN IF id \in DOMAIN u.allocations THEN set_status(u, id, status) ELSE u

\* What refresh_allocations does with the answer of get_allocation_status for
\* the allocation id: "Err" is Err(e), "None" is Ok(None), any other answer is
\* Ok(Some(status)).
on_status(s, id, answer) ==
    LET t == [s EXCEPT !.t_all_queued = @ /\ answer = "Queued",
                       !.t_status_fails = IF answer = "Err" THEN @ + 1 ELSE @,
                       !.requeued = IF /\ answer = "Queued"
                                       /\ id \in DOMAIN s.allocations
                                       /\ s.allocations[id].status = "Running"
                                    THEN @ \cup {id}
                                    ELSE IF answer \in {"Queued", "Err"} THEN @
                                    ELSE @ \ {id}]
    IN  CASE answer = "Err" -> on_status_err(t)
          [] answer = "None" -> on_status_none(t, id)
          [] answer = "Running" -> on_status_running(t, id)
          [] answer = "Finished" -> on_status_ended(t, id, "Finished")
          [] answer = "Failed" -> on_status_ended(t, id, "Failed")
          [] answer = "Queued" ->
                IF id \in DOMAIN t.allocations THEN set_status(t, id, "Queued") ELSE t

\* (mutant) every allocation is recorded with a single worker
new_allocation_single_worker(workers_per_alloc) ==
    [status |-> "Queued", worker_count |-> 1]

\* The Allocation that schedule_new_allocations adds for a created allocation.
new_allocation(workers_per_alloc) ==
    [status |-> "Queued", worker_count |-> workers_per_alloc]

\* (mutant) one task is taken as served per allocation, not one per worker
remaining_tasks_per_allocation(waiting_tasks, workers_per_alloc) ==
    saturating_sub(waiting_tasks, 1)

\* The waiting tasks left for the next allocations: each worker of the new
\* allocation is assumed to handle at least a single task.
remaining_tasks(waiting_tasks, workers_per_alloc) ==
    saturating_sub(waiting_tasks, workers_per_alloc)

\* (mutant) the created allocation is added without its event
on_schedule_ok_unlogged(s) ==
    LET id == s.next_id
        workers_per_alloc == s.info.workers_per_alloc
        u == add_allocation(s, id, new_allocation(workers_per_alloc))
        v == [u EXCEPT !.next_id = @ + 1,
                       !.t_oks = @ + 1,
                       !.waiting_tasks = remaining_tasks(@, workers_per_alloc)]
    IN IF v.waiting_tasks = 0 THEN finish(v) ELSE next_iteration(v)

\* What schedule_new_allocations does with Ok(created): the handler has
\* created the allocation s.next_id.
on_schedule_ok(s) ==
    LET id == s.next_id
        workers_per_alloc == s.info.workers_per_alloc
        u == add_allocation(add_event(s, Event("AllocationQueued", id)), id,
                            new_allocation(workers_per_alloc))
        v == [u EXCEPT !.next_id = @ + 1,
                       !.t_oks = @ + 1,
                       !.waiting_tasks = remaining_tasks(@, workers_per_alloc)]
    IN IF v.waiting_tasks = 0 THEN finish(v) ELSE next_iteration(v)

\* (mutant) the scheduling loop is left after a failed call
on_schedule_err_return(s) ==
    finish([add_event(s, Event("QueueFail", NoAlloc)) EXCEPT !.t_errs = @ + 1])

\* (mutant) the event is put in front of the log
on_schedule_err_front(s) ==
    next_iteration([s EXCEPT !.events = IF Len(@) < EventCap
                                        THEN <<Event("QueueFail", NoAlloc)>> \o @
                                        ELSE <<Event("QueueFail", NoAlloc)>>
                                                \o SubSeq(@, 1, Len(@) - 1),
                             !.t_errs = @ + 1])

\* What schedule_new_allocations does with Err(err).
on_schedule_err(s) ==
    next_iteration([add_event(s, Event("QueueFail", NoAlloc)) EXCEPT !.t_errs = @ + 1])

(* ------------------- removed descriptors, shutdown --------------------- *)
\* (mutant) the handler call is not awaited: the future goes on while the
\* call is in flight
returned_unawaited(s) == s

\* The awaited handler call of the descriptor has returned.
returned(s) == [s EXCEPT !.in_flight = @ - 1]

\* (mutant) the result of the call is logged although the descriptor is gone
descriptor_gone_logged(s) == finish(add_event(s, Event("QueueFail", NoAlloc)))

\* get_or_return! / get_or_continue!: the descriptor is not in the autoalloc
\* state any more when the future looks it up after an await. In
\* refresh_allocations the lookup `continue`s, the lookup at the head of the
\* loop (or the one of schedule_new_allocations) returns; in
\* schedule_new_allocations the lookup returns.
descriptor_gone(s) == finish(s)

\* The descriptor is removed from the autoalloc state (RemoveQueue): its
\* DescriptorState is dropped, the frame of its future stays.
remove_descriptor(s) ==
    [s EXCEPT !.removed = TRUE, !.allocations = << >>, !.events = << >>,
              !.requeued = {}]

\* AutoAllocState::descriptors(): the descriptors in the autoalloc state.
present(ds) == { d \in DOMAIN ds : ~ds[d].removed }

\* (mutant) no filter on the status of the allocations
allocations_to_remove_unfiltered(s) == all_allocations(s)

\* The allocations of a descriptor that autoalloc_shutdown removes.
allocations_to_remove(s) == { a \in all_allocations(s) : is_active(s.allocations[a]) }

\* The handler.remove_allocation calls that autoalloc_shutdown makes, one for
\* every allocation to remove of every descriptor.
removal_calls(ds) ==
    UNION { { <<d, a>> : a \in allocations_to_remove(ds[d]) } : d \in present(ds) }

NoShutdown == [pc |-> "idle", calls |-> << >>, pending |-> {}, failed |-> {}]

\* autoalloc_shutdown up to its await: the calls are made and join_all waits
\* for all of them (it is done at once if there is none).
autoalloc_shutdown(ds) ==
    [pc |-> IF removal_calls(ds) = {} THEN "done" ELSE "removing",
     calls |-> [x \in removal_calls(ds) |-> 1],
     pending |-> removal_calls(ds),
     failed |-> {}]

\* One of the remove_allocation futures completes with Ok (ok) or Err;
\* join_all returns when all have completed and the results are logged.
removal_returned(sh, x, ok) ==
    [sh EXCEPT !.pending = @ \ {x},
               !.failed = IF ok THEN @ ELSE @ \cup {x},
               !.pc = IF sh.pending \ {x} = {} THEN "done" ELSE "removing"]

(* ------------------------ the scheduler core (tako) -------------------- *)
\* The reactor and the scheduler of tako are modelled from their contracts
\* (reactor events, scheduling pass); tests/utils.rs drives them.
MaxTasks == 3           \* task ids are 1 .. MaxTasks
MaxCoreWorkers == 2     \* workers that join the server
MaxBatch == 2           \* largest batch of on_new_tasks

FirstWorkerId == 100    \* TestEnv::new: worker_id_counter
NoWorker == 0

TaskIds == 1 .. MaxTasks

WorkerIds == FirstWorkerId .. FirstWorkerId + MaxCoreWorkers - 1

\* ResourceRequest / WorkerLoad / ResourceDescriptor: the number of cpus and
\* the amount of the generic resource Res0.
Resources(n_cpus, generic) == [n_cpus |-> n_cpus, generic |-> generic]

NoResources == Resources(0, 0)

\* WorkerLoad: add and remove are symmetric
load_add(load, r) == Resources(load.n_cpus + r.n_cpus, load.generic + r.generic)

load_remove(load, r) == Resources(load.n_cpus - r.n_cpus, load.generic - r.generic)

load_fits(load, r, capacity) ==
    /\ load.n_cpus + r.n_cpus <= capacity.n_cpus
    /\ load.generic + r.generic <= capacity.generic

\* TaskBuilder::build: the task id with its inputs and resources. Tasks with
\* an even id ask for two cpus and one unit of Res0, the others for one cpu.
TaskBuilder(id, deps) ==
    [id |-> id, inputs |-> deps,
     resources |-> IF id % 2 = 0 THEN Resources(2, 1) ELSE Resources(1, 0)]

\* new_workers_ext: the first worker has two cpus and one unit of Res0, the
\* others two cpus.
WorkerResources(w) == Resources(2, IF w = FirstWorkerId THEN 1 ELSE 0)

\* Core, with the messages of TestComm that the properties read:
\*   tasks            task id -> [inputs, resources, state, worker, steal_from]
\*                    state is Waiting, Ready, Assigned, Running, Finished or
\*                    Cancelled; worker is the assigned worker (the target
\*                    while the task is being stolen) and steal_from the
\*                    worker the task is being stolen from
\*   workers          worker id -> [resources, load, tasks]
\*   ready_to_assign  the ready queue (popped by ascending task id)
\*   steal_requests   StealRequests staged by the scheduling pass
\*   steals           StealRequests sent and not answered: <<task, source>>
\*   lost_workers     TestComm::lost_workers
\*   worker_id_counter  the id of the next worker
\*   t_late           (history) the tasks whose steal a Running response has
\*                    rolled back
\*   cancel_msgs      the CancelTasks messages sent to the workers:
\*                    <<worker, task>>
InitCore ==
    [tasks |-> << >>, workers |-> << >>, ready_to_assign |-> {},
     steal_requests |-> {}, steals |-> {}, lost_workers |-> << >>,
     worker_id_counter |-> FirstWorkerId, t_late |-> {}, cancel_msgs |-> {}]

\* Worker::insert_task / Worker::remove_task: the task set and the load
insert_task(c, w, t) ==
    [c EXCEPT !.workers[w].tasks = @ \cup {t},
              !.workers[w].load = load_add(@, c.tasks[t].resources)]

remove_task(c, w, t) ==
    [c EXCEPT !.workers[w].tasks = @ \ {t},
              !.workers[w].load = load_remove(@, c.tasks[t].resources)]

\* the consumers of a task: the tasks whose inputs contain it
consumers(c, t) == { u \in DOMAIN c.tasks : t \in c.tasks[u].inputs }

deps_finished(tasks, inputs) ==
    \A dep \in inputs : dep \in DOMAIN tasks /\ tasks[dep].state = "Finished"

(* ------------------------------ reactor -------------------------------- *)
\* on_new_tasks: atomic; the batch is rejected if a task id already exists
\* or a dependency is neither known nor in the batch.
batch_rejected(c, batch) ==
    \E i \in DOMAIN batch :
        \/ i \in DOMAIN c.tasks
        \/ \E dep \in batch[i].inputs : dep \notin DOMAIN c.tasks \cup DOMAIN batch

\* (mutant) the tasks of the batch are added one by one up to the first
\* task that is rejected
on_new_tasks_partial(c, batch) ==
    LET ok == { i \in DOMAIN batch :
                  /\ i \notin DOMAIN c.tasks
                  /\ \A dep \in batch[i].inputs :
                        dep \in DOMAIN c.tasks \cup DOMAIN batch }
    IN  [c EXCEPT !.tasks =
                [i \in DOMAIN c.tasks \cup ok |->
                    IF i \in DOMAIN c.tasks THEN c.tasks[i]
                    ELSE [inputs |-> batch[i].inputs,
                          resources |-> batch[i].resources,
                          state |-> IF deps_finished(c.tasks, batch[i].inputs)
                                    THEN "Ready" ELSE "Waiting",
                          worker |-> NoWorker, steal_from |-> NoWorker]],
              !.ready_to_assign =
                @ \cup { i \in ok : deps_finished(c.tasks, batch[i].inputs) }]

on_new_tasks(c, batch) ==
    IF batch_rejected(c, batch) THEN c
    ELSE [c EXCEPT !.tasks =
                [i \in DOMAIN c.tasks \cup DOMAIN batch |->
                    IF i \in DOMAIN c.tasks THEN c.tasks[i]
                    ELSE [inputs |-> batch[i].inputs,
                          resources |-> batch[i].resources,
                          state |-> IF deps_finished(c.tasks, batch[i].inputs)
                                    THEN "Ready" ELSE "Waiting",
                          worker |-> NoWorker, steal_from |-> NoWorker]],
              !.ready_to_assign =
                @ \cup { i \in DOMAIN batch :
                           deps_finished(c.tasks, batch[i].inputs) }]

\* on_new_worker: the worker joins the worker table
on_new_worker(c, w) ==
    [c EXCEPT !.workers =
                [x \in DOMAIN c.workers \cup {w} |->
                    IF x \in DOMAIN c.workers THEN c.workers[x]
                    ELSE [resources |-> WorkerResources(w),
                          load |-> NoResources, tasks |-> {}]],
              !.worker_id_counter = @ + 1]

\* on_task_running: the worker reports the start of a task assigned to it.
\* If the task is being stolen from the worker, the steal is too late: the
\* task returns from the target to the worker.
on_task_running(c, w, t) ==
    IF c.tasks[t].steal_from = w
    THEN [insert_task(remove_task(c, c.tasks[t].worker, t), w, t)
             EXCEPT !.tasks[t].state = "Running",
                    !.tasks[t].worker = w,
                    !.tasks[t].steal_from = NoWorker]
    ELSE [c EXCEPT !.tasks[t].state = "Running"]

\* the consumers of t that become ready once t is finished
new_ready(c, t) ==
    { u \in consumers(c, t) :
        /\ c.tasks[u].state = "Waiting"
        /\ \A dep \in c.tasks[u].inputs \ {t} : c.tasks[dep].state = "Finished" }

\* on_task_finished: the task is Finished, the load of the worker is
\* released and the consumers whose inputs are all finished become ready.
on_task_finished(c, w, t) ==
    LET ready == new_ready(c, t)
        c1 == remove_task(c, w, t)
    IN  [c1 EXCEPT !.tasks = [u \in DOMAIN c.tasks |->
                        IF u = t
                        THEN [c.tasks[u] EXCEPT !.state = "Finished",
                                                !.worker = NoWorker]
                        ELSE IF u \in ready
                        THEN [c.tasks[u] EXCEPT !.state = "Ready"]
                        ELSE c.tasks[u]],
                   !.ready_to_assign = @ \cup ready]

\* on_steal_response, for one (task, response) of a worker: Ok confirms the
\* steal and the task is assigned to the target; Running rolls the steal
\* back, the task runs on the source. A response for a task that is not
\* being stolen from the worker any more (NotHere included) changes nothing.
on_steal_response(c, w, t, response) ==
    LET c1 == [c EXCEPT !.steals = @ \ {<<t, w>>}]
    IN  IF t \notin DOMAIN c.tasks \/ c.tasks[t].steal_from /= w THEN c1
        ELSE IF response = "Running"
        THEN [insert_task(remove_task(c1, c.tasks[t].worker, t), w, t)
                 EXCEPT !.tasks[t].state = "Running",
                        !.tasks[t].worker = w,
                        !.tasks[t].steal_from = NoWorker,
                        !.t_late = @ \cup {t}]
        ELSE [c1 EXCEPT !.tasks[t].steal_from = NoWorker]

\* (mutant) the notification carries no task ids
send_client_worker_lost_bare(c, w, running_tasks) ==
    [c EXCEPT !.lost_workers = Append(@, <<w, {}>>)]

\* TestComm::send_client_worker_lost
send_client_worker_lost(c, w, running_tasks) ==
    [c EXCEPT !.lost_workers = Append(@, <<w, running_tasks>>)]

\* on_worker_lost: the tasks Assigned or Running on the worker are Ready
\* again; a task that was being stolen from the worker stays with its
\* target; the worker leaves the worker table and the clients are told.
on_worker_lost(c, w) ==
    LET affected == { t \in DOMAIN c.tasks :
                        /\ c.tasks[t].worker = w
                        /\ c.tasks[t].state \in {"Assigned", "Running"} }
        c1 == [c EXCEPT
                 !.tasks = [t \in DOMAIN c.tasks |->
                     IF t \in affected
                     THEN [c.tasks[t] EXCEPT !.state = "Ready",
                                             !.worker = NoWorker,
                                             !.steal_from = NoWorker]
                     ELSE IF c.tasks[t].steal_from = w
                     THEN [c.tasks[t] EXCEPT !.steal_from = NoWorker]
                     ELSE c.tasks[t]],
                 !.workers = [x \in DOMAIN c.workers \ {w} |-> c.workers[x]],
                 !.ready_to_assign = @ \cup affected,
                 !.steals = { x \in @ : x[2] /= w }]
    IN  send_client_worker_lost(c1, w, affected)

\* the tasks ts with the transitive closure of their consumers
RECURSIVE consumer_closure(_, _)
consumer_closure(c, ts) ==
    LET more == UNION { consumers(c, t) : t \in ts } \ ts
    IN  IF more = {} THEN ts ELSE consumer_closure(c, ts \cup more)

\* the tasks ts leave the task sets of their workers
RECURSIVE remove_tasks(_, _)
remove_tasks(c, ts) ==
    IF ts = {} THEN c
    ELSE LET t == CHOOSE x \in ts : TRUE
         IN  remove_tasks(IF c.tasks[t].worker /= NoWorker
                          THEN remove_task(c, c.tasks[t].worker, t)
                          ELSE c,
                          ts \ {t})

\* the worker that has the instance of an assigned or running task: the
\* worker the task is being stolen from until the steal is answered, the
\* assigned worker otherwise
instance_worker(c, t) ==
    IF c.tasks[t].steal_from /= NoWorker THEN c.tasks[t].steal_from
    ELSE c.tasks[t].worker

\* on_cancel_tasks: the tasks and the transitive closure of their consumers
\* are cancelled, unless they are finished; the workers that have an
\* instance of a cancelled task get a CancelTasks message.
on_cancel_tasks(c, ts) ==
    LET cancelled == { t \in consumer_closure(c, ts \cap DOMAIN c.tasks) :
                         c.tasks[t].state \notin {"Finished", "Cancelled"} }
        c1 == remove_tasks(c, cancelled)
    IN  [c1 EXCEPT !.tasks = [t \in DOMAIN c.tasks |->
                        IF t \in cancelled
                        THEN [c.tasks[t] EXCEPT !.state = "Cancelled",
                                                !.worker = NoWorker,
                                                !.steal_from = NoWorker]
                        ELSE c.tasks[t]],
                   !.ready_to_assign = @ \ cancelled,
                   !.cancel_msgs = @ \cup
                        { <<instance_worker(c, t), t>> :
                            t \in { u \in cancelled :
                                      c.tasks[u].state \in {"Assigned", "Running"} } }]

(* ----------------------------- scheduler ------------------------------- *)
\* SchedulerState::assign: the task leaves the task set of the worker it was
\* assigned to and enters the task set of worker w. A task that had a worker
\* is being stolen from it, and a StealRequest to that worker is staged.
assign(c, t, w) ==
    LET prev == c.tasks[t].worker
        from == IF c.tasks[t].steal_from /= NoWorker
                THEN c.tasks[t].steal_from ELSE prev
        c1 == IF prev /= NoWorker THEN remove_task(c, prev, t) ELSE c
    IN  [insert_task(c1, w, t)
            EXCEPT !.tasks[t].state = "Assigned",
                   !.tasks[t].worker = w,
                   !.tasks[t].steal_from = from,
                   !.steal_requests = IF from /= NoWorker
                                      THEN @ \cup {<<t, from>>} ELSE @]

\* Core::remove_from_ready_to_assign
remove_from_ready_to_assign(c, t) == [c EXCEPT !.ready_to_assign = @ \ {t}]

\* force_assign (tests/utils.rs)
force_assign(c, t, w) == assign(remove_from_ready_to_assign(c, t), t, w)

\* (mutant) the task is put on the new worker without leaving the old one
force_reassign_copy(c, t, w) ==
    [insert_task(c, w, t) EXCEPT !.tasks[t].steal_from = c.tasks[t].worker,
                                 !.tasks[t].worker = w,
                                 !.steal_requests = @ \cup {<<t, c.tasks[t].worker>>}]

\* force_reassign: the same as force_assign, but the task is not expected in
\* ready_to_assign
force_reassign(c, t, w) == assign(c, t, w)

\* SchedulerState::finish_scheduling: the staged messages are sent
finish_scheduling(c) ==
    [c EXCEPT !.steals = @ \cup c.steal_requests, !.steal_requests = {}]

\* start_stealing (tests/utils.rs)
start_stealing(c, t, new_worker) == finish_scheduling(force_reassign(c, t, new_worker))

\* (mutant) the source worker answers Ok
fail_steal_ok(c, t, w, target) ==
    on_steal_response(start_stealing(c, t, target), w, t, "Ok")

\* fail_steal (tests/utils.rs): the steal of t from w to target is started
\* and w answers Running
fail_steal(c, t, w, target) ==
    on_steal_response(start_stealing(c, t, target), w, t, "Running")

\* submit_test_tasks (tests/utils.rs)
submit_test_tasks(c, batch) == on_new_tasks(c, batch)

\* (mutant) every waiting consumer of the finished task becomes ready
finish_on_worker_eager(c, t, w) ==
    LET r == on_task_finished(c, w, t)
        eager == { u \in consumers(c, t) : c.tasks[u].state = "Waiting" }
    IN  [r EXCEPT !.tasks = [u \in DOMAIN r.tasks |->
                     IF u \in eager THEN [r.tasks[u] EXCEPT !.state = "Ready"]
                     ELSE r.tasks[u]],
                  !.ready_to_assign = @ \cup eager]

\* finish_on_worker (tests/utils.rs)
finish_on_worker(c, t, w) == on_task_finished(c, w, t)

\* (mutant) only the given tasks are cancelled, their consumers are kept
cancel_tasks_shallow(c, ts) ==
    LET cancelled == { t \in ts \cap DOMAIN c.tasks :
                         c.tasks[t].state \notin {"Finished", "Cancelled"} }
        c1 == remove_tasks(c, cancelled)
    IN  [c1 EXCEPT !.tasks = [t \in DOMAIN c.tasks |->
                        IF t \in cancelled
                        THEN [c.tasks[t] EXCEPT !.state = "Cancelled",
                                                !.worker = NoWorker,
                                                !.steal_from = NoWorker]
                        ELSE c.tasks[t]],
                   !.ready_to_assign = @ \ cancelled,
                   !.cancel_msgs = @ \cup
                        { <<instance_worker(c, t), t>> :
                            t \in { u \in cancelled :
                                      c.tasks[u].state \in {"Assigned", "Running"} } }]

\* cancel_tasks (tests/utils.rs)
cancel_tasks(c, ts) == on_cancel_tasks(c, ts)

\* Assign phase: the workers with enough free resources for the task
candidates(c, t) ==
    { w \in DOMAIN c.workers :
        load_fits(c.workers[w].load, c.tasks[t].resources, c.workers[w].resources) }

\* the candidate that minimises (cpu load, generic load, worker id) after
\* the assignment
best_worker(c, t) ==
    LET key(w) == load_add(c.workers[w].load, c.tasks[t].resources)
        less_eq(a, b) ==
            \/ key(a).n_cpus < key(b).n_cpus
            \/ /\ key(a).n_cpus = key(b).n_cpus
               /\ \/ key(a).generic < key(b).generic
                  \/ key(a).generic = key(b).generic /\ a <= b
    IN  CHOOSE w \in candidates(c, t) : \A x \in candidates(c, t) : less_eq(w, x)

\* Assign phase: the ready tasks ts, by ascending task id
RECURSIVE assign_ready(_, _)
assign_ready(c, ts) ==
    IF ts = {} THEN c
    ELSE LET t == CHOOSE x \in ts : \A y \in ts : x <= y
         IN  assign_ready(IF candidates(c, t) = {} THEN c
                          ELSE force_assign(c, t, best_worker(c, t)),
                          ts \ {t})

NoSteal == << >>

\* Balance phase: the steals the scheduler may decide on. A task that is
\* assigned and not running, on a worker with more than one task, goes to
\* an idle worker with enough resources.
steal_choices(c) ==
    { x \in (DOMAIN c.tasks) \X (DOMAIN c.workers) :
        LET t == x[1]
            w == x[2]
        IN  /\ c.tasks[t].state = "Assigned"
            /\ c.tasks[t].steal_from = NoWorker
            /\ c.tasks[t].worker /= w
            /\ Cardinality(c.workers[c.tasks[t].worker].tasks) > 1
            /\ c.workers[w].tasks = {}
            /\ load_fits(c.workers[w].load, c.tasks[t].resources,
                         c.workers[w].resources) }

balance(c, steal) ==
    IF steal = NoSteal THEN c ELSE force_reassign(c, steal[1], steal[2])

\* (mutant) the load of the worker is not updated by the pass
schedule_load_kept(c, steal) ==
    LET r == finish_scheduling(balance(assign_ready(c, c.ready_to_assign), steal))
    IN  [r EXCEPT !.workers = [w \in DOMAIN r.workers |->
                                  [r.workers[w] EXCEPT !.load = c.workers[w].load]]]

\* TestEnv::schedule: SchedulerState::run_scheduling, the phases Assign,
\* Balance and Finish of one scheduling pass
schedule(c, steal) ==
    finish_scheduling(balance(assign_ready(c, c.ready_to_assign), steal))

(* ----------------- the autoalloc command of the client ----------------- *)
MaxInfo == 3            \* allocations in the answer to an Info request

BacklogLimit == 100     \* add_queue: the largest backlog it accepts

\* AllocationStatus: the variants
Statuses == {"Queued", "Running", "Finished", "Failed"}

\* The allocations of a queue as the Info response lists them.
AllocationLists ==
    UNION { { [i \in 1 .. n |-> [id |-> i, status |-> f[i]]] :
                f \in [1 .. n -> Statuses] } : n \in 0 .. MaxInfo }

NoFilter == [ok |-> TRUE, filter |-> "None"]

\* AllocationStateFilter::from_str
from_str(s) ==
    CASE s = "queued" -> [ok |-> TRUE, filter |-> "Queued"]
      [] s = "running" -> [ok |-> TRUE, filter |-> "Running"]
      [] s = "finished" -> [ok |-> TRUE, filter |-> "Finished"]
      [] s = "failed" -> [ok |-> TRUE, filter |-> "Failed"]
      [] OTHER -> [ok |-> FALSE, filter |-> "Invalid allocation state filter"]

\* (mutant) the filter Finished keeps the failed allocations as well
filter_allocations_ended(allocations, filter) ==
    IF filter = "None" THEN allocations
    ELSE SelectSeq(allocations,
                   LAMBDA allocation :
                       \/ allocation.status = filter
                       \/ filter = "Finished" /\ allocation.status = "Failed")

\* filter_allocations: Vec::retain with the match on the filter
filter_allocations(allocations, filter) ==
    IF filter = "None" THEN allocations
    ELSE SelectSeq(allocations,
                   LAMBDA allocation :
                       CASE filter = "Queued" -> allocation.status = "Queued"
                         [] filter = "Running" -> allocation.status = "Running"
                         [] filter = "Finished" -> allocation.status = "Finished"
                         [] filter = "Failed" -> allocation.status = "Failed")

\* create_queue_params: AddQueueParams of the options of the command
AddQueueParams(backlog, workers_per_alloc) ==
    [backlog |-> backlog, workers_per_alloc |-> workers_per_alloc]

\* The state of one run of the command: the allocations the server lists
\* for the queue; the command (none, add, info) with the options it was
\* given (params, arg) and its position (idle, add_sent, info_sent, done);
\* the messages sent to the server; the result of the command (none, ok,
\* err); the filter it parsed and what it has printed.
NoOutput == "nothing"

InitClient(allocations) ==
    [allocations |-> allocations, command |-> "none", pc |-> "idle",
     params |-> AddQueueParams(0, 0), arg |-> "none", sent |-> << >>,
     result |-> "none", filter |-> "None", printed |-> NoOutput]

\* no client command runs
NoClient == InitClient(<< >>)

\* add_queue up to its await: the backlog check, then the AddQueue message
add_queue(cl, params) ==
    IF params.backlog > BacklogLimit
    THEN [cl EXCEPT !.command = "add", !.params = params,
                    !.pc = "done", !.result = "err"]
    ELSE [cl EXCEPT !.command = "add", !.params = params, !.pc = "add_sent",
                    !.sent = Append(@, [request |-> "AddQueue", params |-> params])]

\* add_queue after the await: QueueCreated(id)
queue_created(cl) == [cl EXCEPT !.pc = "done", !.result = "ok"]

\* The filter option of the info command, parsed by clap with from_str: a
\* string that is no filter ends the command with an error.
print_allocations(cl, arg) ==
    LET parsed == IF arg = "none" THEN NoFilter ELSE from_str(arg)
    IN  IF ~parsed.ok
        THEN [cl EXCEPT !.command = "info", !.arg = arg,
                        !.pc = "done", !.result = "err"]
        ELSE [cl EXCEPT !.command = "info", !.arg = arg, !.pc = "info_sent",
                        !.filter = parsed.filter,
                        !.sent = Append(@, [request |-> "Info"])]

\* print_allocations after the await: the allocations of the response are
\* filtered and printed
info_returned(cl) ==
    [cl EXCEPT !.pc = "done", !.result = "ok",
               !.printed = filter_allocations(cl.allocations, cl.filter)]

(* ------------------------------ actions -------------------------------- *)
(* -------------------- local communication of a worker ------------------ *)
MaxTokens == 3          \* raw tokens that new_raw_token can draw
MaxDraws == 2           \* draws of one register_task call

NoToken == 0

\* new_raw_token: "hq0-" and twelve random alphanumeric characters
Tokens == 1 .. MaxTokens

\* Option<&Registration>::None
NoRegistration == 0

\* Registration::DataConnection { task_id }
Registrations == TaskIds

NoConnection == [token |-> NoToken, result |-> "none", task_id |-> NoRegistration]

\* LocalCommState::new, with what the properties read:
\*   registered_tokens  Map<Token, Registration>
\*   live               (history) the registrations made and not
\*                      unregistered since, with the tokens returned for them
\*   connection         the end of the last connection: the token of its
\*                      intro message, its result and the task id given to
\*                      the data-node handler
InitLocalComm ==
    [registered_tokens |-> << >>, live |-> << >>, connection |-> NoConnection]

\* (mutant) the first token drawn is taken, registered or not
register_task_first(lc, draws, registration) ==
    [lc EXCEPT !.registered_tokens =
                  [x \in DOMAIN lc.registered_tokens \cup {Head(draws)} |->
                      IF x = Head(draws) THEN registration
                      ELSE lc.registered_tokens[x]],
               !.live = Append(@, [token |-> Head(draws),
                                   registration |-> registration])]

\* LocalCommState::register_task: draws are the tokens that Token::new()
\* returns in the iterations of the loop; a token that is a key of the map
\* is a collision and the loop continues.
RECURSIVE register_task(_, _, _)
register_task(lc, draws, registration) ==
    LET token == Head(draws)
    IN  IF token \in DOMAIN lc.registered_tokens
        THEN register_task(lc, Tail(draws), registration)
        ELSE [lc EXCEPT !.registered_tokens =
                           [x \in DOMAIN lc.registered_tokens \cup {token} |->
                               IF x = token THEN registration
                               ELSE lc.registered_tokens[x]],
                        !.live = Append(@, [token |-> token,
                                            registration |-> registration])]

\* LocalCommState::unregister_token
unregister_token(lc, token) ==
    [lc EXCEPT !.registered_tokens =
                  [x \in DOMAIN lc.registered_tokens \ {token} |->
                      lc.registered_tokens[x]],
               !.live = SelectSeq(@, LAMBDA r : r.token /= token)]

\* LocalCommState::check_token
check_token(lc, token) ==
    IF token \in DOMAIN lc.registered_tokens THEN lc.registered_tokens[token]
    ELSE NoRegistration

\* handle_connection: the stream ends without an intro message (NoToken),
\* or its intro message carries a token; an unknown token is the error
\* "Invalid token", a registered one hands the connection to
\* datanode_connection_handler with the task id of the registration.
handle_connection(lc, token) ==
    IF token = NoToken
    THEN [lc EXCEPT !.connection = [token |-> NoToken, result |-> "closed",
                                    task_id |-> NoRegistration]]
    ELSE IF check_token(lc, token) = NoRegistration
    THEN [lc EXCEPT !.connection = [token |-> token, result |-> "Invalid token",
                                    task_id |-> NoRegistration]]
    ELSE [lc EXCEPT !.connection = [token |-> token, result |-> "datanode",
                                    task_id |-> check_token(lc, token)]]

(* ----------------------- submission of a job file ----------------------- *)
IdBits == 3             \* width of JobTaskId in the model (u32 in the code)
MaxFileTasks == 3       \* tasks of a job file

\* the largest JobTaskId
MaxId == 2 ^ IdBits - 1

\* TaskDef::id is None
NoId == -1

\* The ids that a task of the file can carry: none, or an explicit id.
ExplicitIds == {0, 2, MaxId}

\* The tasks of a job file, each given by its id.
TaskDefs ==
    UNION { [1 .. n -> ExplicitIds \cup {NoId}] : n \in 1 .. MaxFileTasks }

NoJobFile == [pc |-> "none"]

\* The job definition that JobDef::parse has returned; overflow_checks
\* tells whether the build panics on an integer overflow or wraps.
InitJobFile(tasks, overflow_checks) ==
    [pc |-> "parsed", tasks |-> tasks, overflow_checks |-> overflow_checks,
     ids |-> << >>]

\* tasks.iter().map(|t| t.id).max().flatten().unwrap_or(JobTaskId(0))
max_explicit_id(tasks) ==
    IF \A i \in DOMAIN tasks : tasks[i] = NoId THEN 0
    ELSE CHOOSE m \in { tasks[i] : i \in DOMAIN tasks } :
            \A i \in DOMAIN tasks : tasks[i] <= m

\* build_task: b is the build so far (the ids of the tasks built, max_id,
\* and whether the build has panicked). max_id.as_num() + 1 is a u32
\* addition: it panics with overflow checks and wraps without them.
build_task(tdef, b) ==
    IF b.panic THEN b
    ELSE IF tdef /= NoId THEN [b EXCEPT !.ids = Append(@, tdef)]
    ELSE IF b.max_id + 1 > MaxId /\ b.overflow_checks THEN [b EXCEPT !.panic = TRUE]
    ELSE [b EXCEPT !.max_id = (@ + 1) % (MaxId + 1),
                   !.ids = Append(@, (b.max_id + 1) % (MaxId + 1))]

\* tasks.into_iter().map(|t| build_task(t, &mut max_id, data_flags))
RECURSIVE build_tasks(_, _)
build_tasks(tasks, b) ==
    IF tasks = << >> THEN b
    ELSE build_tasks(Tail(tasks), build_task(Head(tasks), b))

\* build_job_desc_individual_tasks
build_job_desc_individual_tasks(tasks, overflow_checks) ==
    build_tasks(tasks, [ids |-> << >>, max_id |-> max_explicit_id(tasks),
                        overflow_checks |-> overflow_checks, panic |-> FALSE])

\* build_job_submit for a file of individual tasks: the request with the ids
\* of its tasks, or the panic of the build.
build_job_submit(jf) ==
    LET b == build_job_desc_individual_tasks(jf.tasks, jf.overflow_checks)
    IN  IF b.panic THEN [jf EXCEPT !.pc = "panic"]
        ELSE [jf EXCEPT !.pc = "built", !.ids = b.ids]

StatusAnswers == {"Queued", "Running", "Finished", "Failed", "None", "Err"}

\* The descriptors of the server process: two allocation queues.
DescriptorIds == {0, 1}

Init ==
    /\ \E b \in 1 .. MaxBacklog, w \in 1 .. MaxWorkers :
          descriptors = [d \in {0} |-> InitDescriptor(b, w, Timelimit)]
    /\ ticks = 0
    /\ shutdown = NoShutdown
    /\ jobs = AnyJobs
    /\ core = InitCore
    /\ client = NoClient
    /\ lc_state = InitLocalComm
    /\ jobfile = NoJobFile

\* One descriptor with a backlog of one allocation of one worker.
InitLife ==
    /\ descriptors = [d \in {0} |-> InitDescriptor(1, 1, Timelimit)]
    /\ ticks = 0
    /\ shutdown = NoShutdown
    /\ jobs = AnyJobs
    /\ core = InitCore
    /\ client = NoClient
    /\ lc_state = InitLocalComm
    /\ jobfile = NoJobFile

\* A server with the descriptors DescriptorIds, each with a backlog of one
\* allocation of one worker.
InitServer ==
    /\ descriptors = [d \in DescriptorIds |-> InitDescriptor(1, 1, Timelimit)]
    /\ ticks = 0
    /\ shutdown = NoShutdown
    /\ jobs = AnyJobs
    /\ core = InitCore
    /\ client = NoClient
    /\ lc_state = InitLocalComm
    /\ jobfile = NoJobFile

\* (mutant) the tick is started without waiting for the tick before
autoalloc_tick_unawaited(max_ticks) ==
    /\ ticks < max_ticks
    /\ ticks' = ticks + 1
    /\ \E js \in state_jobs :
          descriptors' = [d \in DOMAIN descriptors |->
                             IF d \in present(descriptors)
                             THEN refresh_allocations(descriptors[d], js)
                             ELSE descriptors[d]]
    /\ UNCHANGED <<shutdown, jobs, core, client, lc_state, jobfile>>

\* autoalloc_process: the interval fires and autoalloc_tick starts
\* process_descriptor for every descriptor; each runs up to its first await.
\* The jobs the tick finds are the jobs of the server (State::jobs()) by now.
\* The loop of autoalloc_process awaits autoalloc_tick, and so the futures of
\* the tick before, ahead of the next interval tick.
autoalloc_tick(max_ticks) ==
    /\ ticks < max_ticks
    /\ ticks' = ticks + 1
    /\ \A d \in DOMAIN descriptors : descriptors[d].pc = "idle"
    /\ \E js \in state_jobs :
          descriptors' = [d \in DOMAIN descriptors |->
                             IF d \in present(descriptors)
                             THEN refresh_allocations(descriptors[d], js)
                             ELSE descriptors[d]]
    /\ UNCHANGED <<shutdown, jobs, core, client, lc_state, jobfile>>

TickStart == autoalloc_tick(MaxTicks)

TickStartLong == autoalloc_tick(LongTicks)

TickStartLife == autoalloc_tick(LifeTicks)

\* The root shutdown ends the loop of autoalloc_process: no tick starts once
\* autoalloc_shutdown runs.
TickStartServer == shutdown.pc = "idle" /\ autoalloc_tick(ServerTicks)

\* The jobs of the server that the step of s after a status call can read:
\* schedule_new_allocations reads them once the last status call has returned.
jobs_read(s) == IF s.allocation_ids = {} /\ ~s.removed THEN state_jobs ELSE {<< >>}

\* The awaited get_allocation_status call of descriptor d returns; js are
\* the jobs of the server by now.
StatusReturn(d) ==
    /\ descriptors[d].pc = "status"
    /\ \E answer \in StatusAnswers, js \in jobs_read(descriptors[d]) :
          descriptors' = [descriptors EXCEPT ![d] =
                IF descriptors[d].removed
                THEN descriptor_gone(returned(descriptors[d]))
                ELSE next_status(on_status(returned(descriptors[d]),
                                           descriptors[d].allocation_id, answer),
                                 js)]
    /\ UNCHANGED <<ticks, shutdown, jobs, core, client, lc_state, jobfile>>

\* (mutant) the tasks that the new allocation can take are taken off the
\* counters of the jobs
ScheduleOk_counted(d) ==
    /\ descriptors[d].pc = "schedule"
    /\ descriptors[d].next_id < MaxAllocs
    /\ descriptors' = [descriptors EXCEPT ![d] =
                          IF descriptors[d].removed
                          THEN descriptor_gone(returned(descriptors[d]))
                          ELSE on_schedule_ok(returned(descriptors[d]))]
    /\ jobs' = IF jobs = AnyJobs THEN jobs
               ELSE [i \in DOMAIN jobs |->
                        [jobs[i] EXCEPT !.n_waiting =
                            saturating_sub(@, descriptors[d].info.workers_per_alloc)]]
    /\ UNCHANGED <<ticks, shutdown, core, client, lc_state, jobfile>>

\* The awaited schedule_allocation call of descriptor d returns Ok(created).
\* The handler creates at most MaxAllocs allocations and fails from then on.
ScheduleOk(d) ==
    /\ descriptors[d].pc = "schedule"
    /\ descriptors[d].next_id < MaxAllocs
    /\ descriptors' = [descriptors EXCEPT ![d] =
                          IF descriptors[d].removed
                          THEN descriptor_gone(returned(descriptors[d]))
                          ELSE on_schedule_ok(returned(descriptors[d]))]
    /\ UNCHANGED <<ticks, shutdown, jobs, core, client, lc_state, jobfile>>

\* (mutant) the failure is logged in every descriptor of the server
ScheduleErr_everywhere(d) ==
    /\ descriptors[d].pc = "schedule"
    /\ descriptors' = [e \in DOMAIN descriptors |->
                          IF e = d
                          THEN IF descriptors[d].removed
                               THEN descriptor_gone(returned(descriptors[d]))
                               ELSE on_schedule_err(returned(descriptors[d]))
                          ELSE IF descriptors[e].removed THEN descriptors[e]
                          ELSE add_event(descriptors[e], Event("QueueFail", NoAlloc))]
    /\ UNCHANGED <<ticks, shutdown, jobs, core, client, lc_state, jobfile>>

\* The awaited schedule_allocation call of descriptor d returns Err(err).
ScheduleErr(d) ==
    /\ descriptors[d].pc = "schedule"
    /\ descriptors' = [descriptors EXCEPT ![d] =
                          IF descriptors[d].removed
                          THEN descriptor_gone(returned(descriptors[d]))
                          ELSE on_schedule_err(returned(descriptors[d]))]
    /\ UNCHANGED <<ticks, shutdown, jobs, core, client, lc_state, jobfile>>

\* The server removes the descriptor d from the autoalloc state (RemoveQueue)
\* at any time before the shutdown, also while a handler call of d is awaited.
RemoveDescriptor(d) ==
    /\ shutdown.pc = "idle"
    /\ d \in present(descriptors)
    /\ descriptors' = [descriptors EXCEPT ![d] = remove_descriptor(descriptors[d])]
    /\ UNCHANGED <<ticks, shutdown, jobs, core, client, lc_state, jobfile>>

\* autoalloc_shutdown is called, also while a tick is suspended on handler calls.
ShutdownStart ==
    /\ shutdown.pc = "idle"
    /\ shutdown' = autoalloc_shutdown(descriptors)
    /\ UNCHANGED <<descriptors, ticks, jobs, core, client, lc_state, jobfile>>

\* A handler.remove_allocation call of the shutdown returns Ok(()) or Err(e).
RemoveReturn ==
    /\ shutdown.pc = "removing"
    /\ \E x \in shutdown.pending, ok \in BOOLEAN :
          shutdown' = removal_returned(shutdown, x, ok)
    /\ UNCHANGED <<descriptors, ticks, jobs, core, client, lc_state, jobfile>>

Step ==
    \/ \E d \in DOMAIN descriptors : StatusReturn(d)
    \/ \E d \in DOMAIN descriptors : ScheduleOk(d)
    \/ \E d \in DOMAIN descriptors : ScheduleErr(d)

Next == TickStart \/ Step

NextLong == TickStartLong \/ Step

NextLife == TickStartLife \/ Step

NextServer ==
    \/ TickStartServer
    \/ Step
    \/ \E d \in DOMAIN descriptors : RemoveDescriptor(d)
    \/ ShutdownStart
    \/ RemoveReturn

\* MaxTicks ticks of the autoalloc process.
Spec == Init /\ [][Next]_vars

\* LongTicks ticks of the autoalloc process.
SpecLong == Init /\ [][NextLong]_vars

\* LifeTicks ticks of the autoalloc process for one descriptor that keeps one
\* allocation queued: the life of its allocations.
SpecLife == InitLife /\ [][NextLife]_vars

\* ServerTicks ticks of the autoalloc process of a server with two
\* descriptors, where descriptors are removed and the server shuts down.
SpecServer == InitServer /\ [][NextServer]_vars

\* The same server with handlers whose calls return: a handler call that is
\* awaited is answered in the end.
SpecServerFair == InitServer /\ [][NextServer]_vars /\ WF_vars(Step)

(* ------------------------- actions of the core ------------------------- *)
\* The batches of on_new_tasks: at most MaxBatch tasks, each with inputs
\* among the tasks of smaller ids (a TaskRef exists before its consumer).
Batches ==
    UNION { { [i \in ids |-> TaskBuilder(i, deps[i])] :
                deps \in { f \in [ids -> SUBSET TaskIds] :
                             \A i \in ids : f[i] \subseteq 1 .. (i - 1) } } :
            ids \in { s \in SUBSET TaskIds : s /= {} /\ Cardinality(s) <= MaxBatch } }

\* A server without allocation queues: the scheduler core alone.
InitTako ==
    /\ descriptors = << >>
    /\ ticks = 0
    /\ shutdown = NoShutdown
    /\ jobs = AnyJobs
    /\ core = InitCore
    /\ client = NoClient
    /\ lc_state = InitLocalComm
    /\ jobfile = NoJobFile

\* A client submits a batch of tasks.
NewTasks ==
    /\ \E batch \in Batches : core' = submit_test_tasks(core, batch)
    /\ UNCHANGED <<descriptors, ticks, shutdown, jobs, client, lc_state, jobfile>>

\* A worker connects.
NewWorker ==
    /\ core.worker_id_counter \in WorkerIds
    /\ core' = on_new_worker(core, core.worker_id_counter)
    /\ UNCHANGED <<descriptors, ticks, shutdown, jobs, client, lc_state, jobfile>>

\* One scheduling pass; the steal is the decision of its Balance phase.
Schedule ==
    /\ \E steal \in steal_choices(assign_ready(core, core.ready_to_assign))
                       \cup {NoSteal} :
          core' = schedule(core, steal)
    /\ UNCHANGED <<descriptors, ticks, shutdown, jobs, client, lc_state, jobfile>>

\* The worker that holds an assigned task (the source, while the task is
\* being stolen) reports its start.
TaskRunning ==
    /\ \E t \in DOMAIN core.tasks, w \in DOMAIN core.workers :
          /\ core.tasks[t].state = "Assigned"
          /\ \/ core.tasks[t].steal_from = w
             \/ core.tasks[t].steal_from = NoWorker /\ core.tasks[t].worker = w
          /\ core' = on_task_running(core, w, t)
    /\ UNCHANGED <<descriptors, ticks, shutdown, jobs, client, lc_state, jobfile>>

\* The worker that runs a task reports that it has finished.
TaskFinished ==
    /\ \E t \in DOMAIN core.tasks, w \in DOMAIN core.workers :
          /\ core.tasks[t].state = "Running"
          /\ core.tasks[t].worker = w
          /\ core' = finish_on_worker(core, t, w)
    /\ UNCHANGED <<descriptors, ticks, shutdown, jobs, client, lc_state, jobfile>>

\* The answers a worker may give to the StealRequest x = <<task, source>>:
\* Ok or Running (it has started the task by then) while the server counts
\* the task as being stolen from it, Running if the server knows that it
\* runs the task, NotHere otherwise.
StealResponses(c, x) ==
    IF x[1] \in DOMAIN c.tasks /\ c.tasks[x[1]].steal_from = x[2]
    THEN {"Ok", "Running"}
    ELSE IF /\ x[1] \in DOMAIN c.tasks
            /\ c.tasks[x[1]].state = "Running"
            /\ c.tasks[x[1]].worker = x[2]
    THEN {"Running"}
    ELSE {"NotHere"}

\* A worker answers a StealRequest.
StealResponse ==
    /\ \E x \in core.steals :
          \E response \in StealResponses(core, x) :
             core' = on_steal_response(core, x[2], x[1], response)
    /\ UNCHANGED <<descriptors, ticks, shutdown, jobs, client, lc_state, jobfile>>

\* The connection of a worker is lost.
WorkerLost ==
    /\ \E w \in DOMAIN core.workers : core' = on_worker_lost(core, w)
    /\ UNCHANGED <<descriptors, ticks, shutdown, jobs, client, lc_state, jobfile>>

\* A client cancels up to MaxBatch of its tasks.
CancelTasks ==
    /\ \E ts \in SUBSET DOMAIN core.tasks :
          /\ ts /= {}
          /\ Cardinality(ts) <= MaxBatch
          /\ \A t \in ts : core.tasks[t].state \notin {"Finished", "Cancelled"}
          /\ core' = cancel_tasks(core, ts)
    /\ UNCHANGED <<descriptors, ticks, shutdown, jobs, client, lc_state, jobfile>>

NextTako ==
    \/ NewTasks
    \/ NewWorker
    \/ Schedule
    \/ TaskRunning
    \/ TaskFinished
    \/ StealResponse
    \/ WorkerLost
    \/ CancelTasks

\* The reactor and the scheduler of a server with up to MaxTasks tasks and
\* MaxCoreWorkers workers.
SpecTako == InitTako /\ [][NextTako]_vars


(* ------------------------ actions of the client ----------------------- *)
\* The values of --backlog and --workers-per-alloc (u32) of the add command
Backlogs == {0, 1, BacklogLimit, BacklogLimit + 1}

WorkersPerAlloc == {0, 1, 2}

\* The values of --filter of the info command; "none": no filter is given
FilterArgs == {"none", "queued", "running", "finished", "failed",
               "Queued", "active", ""}

\* One run of the autoalloc command against a server that lists any of
\* AllocationLists for the queue.
InitCommand ==
    /\ descriptors = << >>
    /\ ticks = 0
    /\ shutdown = NoShutdown
    /\ jobs = AnyJobs
    /\ core = InitCore
    /\ \E allocations \in AllocationLists : client = InitClient(allocations)
    /\ lc_state = InitLocalComm
    /\ jobfile = NoJobFile

\* hq alloc add
AddQueue ==
    /\ client.pc = "idle"
    /\ \E backlog \in Backlogs, workers_per_alloc \in WorkersPerAlloc :
          client' = add_queue(client, AddQueueParams(backlog, workers_per_alloc))
    /\ UNCHANGED <<descriptors, ticks, shutdown, jobs, core, lc_state, jobfile>>

\* the server answers QueueCreated
QueueCreated ==
    /\ client.pc = "add_sent"
    /\ client' = queue_created(client)
    /\ UNCHANGED <<descriptors, ticks, shutdown, jobs, core, lc_state, jobfile>>

\* hq alloc info [--filter arg]
Info ==
    /\ client.pc = "idle"
    /\ \E arg \in FilterArgs : client' = print_allocations(client, arg)
    /\ UNCHANGED <<descriptors, ticks, shutdown, jobs, core, lc_state, jobfile>>

\* the server answers Info(allocations)
InfoReturn ==
    /\ client.pc = "info_sent"
    /\ client' = info_returned(client)
    /\ UNCHANGED <<descriptors, ticks, shutdown, jobs, core, lc_state, jobfile>>

NextCommand == AddQueue \/ QueueCreated \/ Info \/ InfoReturn

\* The add and info commands of the client.
SpecCommand == InitCommand /\ [][NextCommand]_vars

(* ----------------- the autoalloc loop beside the reactor --------------- *)
\* A server with one descriptor whose jobs the specification follows.
InitShared ==
    /\ descriptors = [d \in {0} |-> InitDescriptor(1, 1, Timelimit)]
    /\ ticks = 0
    /\ shutdown = NoShutdown
    /\ jobs \in JobSets
    /\ core = InitCore
    /\ client = NoClient
    /\ lc_state = InitLocalComm
    /\ jobfile = NoJobFile

\* Between two steps of the autoalloc loop the server handles submissions
\* and task events: the jobs and their counters change.
JobsChange ==
    /\ jobs /= AnyJobs
    /\ jobs' \in JobSets \ {jobs}
    /\ UNCHANGED <<descriptors, ticks, shutdown, core, client, lc_state, jobfile>>

NextShared ==
    \/ TickStartServer
    \/ Step
    \/ ShutdownStart
    \/ RemoveReturn
    \/ JobsChange
    \/ NewWorker
    \/ WorkerLost

\* The autoalloc loop and its shutdown on a server whose jobs and workers
\* change in between.
SpecShared == InitShared /\ [][NextShared]_vars

(* --------------------- actions of the local communication -------------- *)
\* The tokens that the iterations of one register_task call can draw: the
\* loop ends with the first token that is not registered.
TokenDraws(lc) ==
    { draws \in UNION { [1 .. n -> Tokens] : n \in 1 .. MaxDraws } :
        /\ draws[Len(draws)] \notin DOMAIN lc.registered_tokens
        /\ \A i \in 1 .. (Len(draws) - 1) : draws[i] \in DOMAIN lc.registered_tokens }

\* A worker without tasks of the server: its local communication alone.
InitWorker ==
    /\ descriptors = << >>
    /\ ticks = 0
    /\ shutdown = NoShutdown
    /\ jobs = AnyJobs
    /\ core = InitCore
    /\ client = NoClient
    /\ lc_state = InitLocalComm
    /\ jobfile = NoJobFile

\* The worker registers the data connection of a task.
RegisterTask ==
    /\ \E draws \in TokenDraws(lc_state), registration \in Registrations :
          lc_state' = register_task(lc_state, draws, registration)
    /\ UNCHANGED <<descriptors, ticks, shutdown, jobs, core, client, jobfile>>

\* The worker unregisters a token, registered or not.
UnregisterToken ==
    /\ \E token \in Tokens : lc_state' = unregister_token(lc_state, token)
    /\ UNCHANGED <<descriptors, ticks, shutdown, jobs, core, client, jobfile>>

\* A process connects to the unix socket of the worker.
Connection ==
    /\ \E token \in Tokens \cup {NoToken} :
          lc_state' = handle_connection(lc_state, token)
    /\ UNCHANGED <<descriptors, ticks, shutdown, jobs, core, client, jobfile>>

NextWorker == RegisterTask \/ UnregisterToken \/ Connection

\* The local communication of a worker: registrations, unregistrations and
\* connections in any order.
SpecWorker == InitWorker /\ [][NextWorker]_vars

(* ------------------------ actions of the submission -------------------- *)
\* A client that has parsed a job file of individual tasks.
InitSubmit ==
    /\ descriptors = << >>
    /\ ticks = 0
    /\ shutdown = NoShutdown
    /\ jobs = AnyJobs
    /\ core = InitCore
    /\ client = NoClient
    /\ lc_state = InitLocalComm
    /\ \E tasks \in TaskDefs, overflow_checks \in BOOLEAN :
          jobfile = InitJobFile(tasks, overflow_checks)

\* submit_computation_from_job_file builds the request.
BuildJobSubmit ==
    /\ jobfile.pc = "parsed"
    /\ jobfile' = build_job_submit(jobfile)
    /\ UNCHANGED <<descriptors, ticks, shutdown, jobs, core, client, lc_state>>

NextSubmit == BuildJobSubmit

\* The submission of one job file.
SpecSubmit == InitSubmit /\ [][NextSubmit]_vars

(* ---------------------- vocabulary of the properties ------------------- *)
Ids == DOMAIN descriptors

\* The tick has run and every process_descriptor future of it is complete.
AfterTick == ticks > 0 /\ \A d \in Ids : descriptors[d].pc = "idle"

\* process_descriptor of s has run its schedule phase to the end.
TickDone(s) == s.pc = "idle" /\ s.t_scheduled

Min(a, b) == IF a < b THEN a ELSE b

Ceil(a, b) == (a + b - 1) \div b

\* The bounded event log after ev is logged.
Logged(log, ev) ==
    IF Len(log) < EventCap THEN log \o <<ev>>
    ELSE SubSeq(log, 2, Len(log)) \o <<ev>>

\* Waiting tasks of the jobs whose min_time is strictly below the time limit.
FeasibleJobs(js, limit) == { i \in DOMAIN js : js[i].min_time < limit }

RECURSIVE WaitingOf(_, _)
WaitingOf(js, I) ==
    IF I = {} THEN 0
    ELSE LET i == CHOOSE x \in I : TRUE
         IN js[i].n_waiting + WaitingOf(js, I \ {i})

FreshQueued(s) == queued_allocations(s) \ s.requeued

(* ------------------------------- C1 ------------------------------------ *)
\* C1 as stated: after every autoalloc tick, every descriptor holds at most
\* `backlog` active (Queued or Running) allocations.
C1_ActiveAtMostBacklog ==
    AfterTick => \A d \in Ids :
        Cardinality(active_allocations(descriptors[d])) <= descriptors[d].info.backlog

\* C1 amended: in every state, and so after every tick, every descriptor holds
\* at most `backlog` Queued allocations that have not been Running before;
\* Running allocations are not counted against the backlog.
C1_FreshQueuedAtMostBacklog ==
    \A d \in Ids : Cardinality(FreshQueued(descriptors[d])) <= descriptors[d].info.backlog

\* A tick has ended with a full backlog of fresh Queued allocations next to
\* Running ones: more active allocations than the backlog.
C1_Witness ==
    /\ AfterTick
    /\ \E d \in Ids :
          /\ Cardinality(FreshQueued(descriptors[d])) = descriptors[d].info.backlog
          /\ Cardinality(active_allocations(descriptors[d])) > descriptors[d].info.backlog

(* ------------------------------- C2 ------------------------------------ *)
\* C2: in every reachable state every descriptor holds at most `backlog`
\* allocations whose stored status is Queued, whatever the handler answers.
C2_QueuedAtMostBacklog ==
    \A d \in Ids :
        Cardinality(queued_allocations(descriptors[d])) <= descriptors[d].info.backlog

(* ------------------------------- C3 ------------------------------------ *)
\* C3: a tick that starts with no allocation, finds at least
\* backlog * workers_per_alloc feasible waiting tasks and sees every
\* schedule_allocation call succeed ends with exactly `backlog` allocations,
\* all Queued and all with worker_count = workers_per_alloc.
C3_FillBacklog ==
    \A d \in Ids :
        LET s == descriptors[d]
        IN  ( /\ TickDone(s)
              /\ s.t_allocs = 0
              /\ s.t_waiting >= s.info.backlog * s.info.workers_per_alloc
              /\ s.t_errs = 0 )
            => /\ Cardinality(all_allocations(s)) = s.info.backlog
               /\ \A a \in all_allocations(s) :
                     /\ s.allocations[a].status = "Queued"
                     /\ s.allocations[a].worker_count = s.info.workers_per_alloc

C3_Witness ==
    \E d \in Ids :
        LET s == descriptors[d]
        IN  /\ TickDone(s)
            /\ s.t_allocs = 0
            /\ s.t_waiting >= s.info.backlog * s.info.workers_per_alloc
            /\ s.t_errs = 0
            /\ s.info.backlog = MaxBacklog
            /\ s.info.workers_per_alloc = MaxWorkers
            /\ Cardinality(all_allocations(s)) = MaxBacklog

(* ------------------------------- C4 ------------------------------------ *)
\* C4: a tick that starts with at least `backlog` Queued allocations and in
\* which the handler reports Queued for every allocation makes no
\* schedule_allocation call and leaves the number of allocations unchanged
\* (and so the next tick starts from a full backlog again).
C4_FullBacklogFixedPoint ==
    \A d \in Ids :
        LET s == descriptors[d]
        IN  ( /\ TickDone(s)
              /\ s.t_queued_start >= s.info.backlog
              /\ s.t_all_queued )
            => /\ s.t_calls = 0
               /\ Cardinality(all_allocations(s)) = s.t_allocs
               /\ Cardinality(queued_allocations(s)) >= s.info.backlog

\* A later tick has ended, it started from a full backlog, the handler
\* reported Queued for every allocation and plenty of tasks were waiting.
C4_Witness ==
    \E d \in Ids :
        LET s == descriptors[d]
        IN  /\ TickDone(s)
            /\ ticks >= 2
            /\ s.t_queued_start = s.info.backlog
            /\ s.t_all_queued
            /\ s.t_waiting > 0
            /\ Cardinality(all_allocations(s)) = s.info.backlog

(* ------------------------------- C5 ------------------------------------ *)
\* C5: when every schedule_allocation call of a tick succeeds the tick creates
\* min(backlog - queued, ceil(waiting_tasks / workers_per_alloc)) allocations
\* (the subtraction saturating at 0), both read at the start of the schedule
\* phase; while the loop runs, waiting_tasks is the count read at the start
\* decremented (saturating) by workers_per_alloc for every success, and no
\* call is in flight once it is zero.
C5_WaitingTaskCeiling ==
    \A d \in Ids :
        LET s == descriptors[d]
            room == saturating_sub(s.info.backlog, s.t_queued)
            need == Ceil(s.t_waiting, s.info.workers_per_alloc)
        IN  /\ (TickDone(s) /\ s.t_errs = 0)
               => /\ s.t_oks = Min(room, need)
                  /\ Cardinality(all_allocations(s)) = s.t_count + Min(room, need)
            /\ s.pc = "schedule"
               => /\ s.waiting_tasks > 0
                  /\ s.waiting_tasks =
                        saturating_sub(s.t_waiting, s.t_oks * s.info.workers_per_alloc)

\* The waiting tasks ran out before the backlog was full.
C5_Witness ==
    \E d \in Ids :
        LET s == descriptors[d]
        IN  /\ TickDone(s)
            /\ s.t_errs = 0
            /\ s.t_oks >= 1
            /\ s.t_oks < saturating_sub(s.info.backlog, s.t_queued)
            /\ s.t_waiting < s.t_oks * s.info.workers_per_alloc

(* ------------------------------- C6 ------------------------------------ *)
\* The descriptor s as the end of the refresh phase can leave it: after the
\* answer to the status call in flight, or as it is if no call is in flight.
Refreshed(s) ==
    IF s.pc = "status"
    THEN { on_status(s, s.allocation_id, answer) : answer \in StatusAnswers }
    ELSE {s}

\* C6, the step: a step that starts the schedule phase of a descriptor with a
\* feasible waiting-task count of 0 makes no schedule_allocation call and
\* completes process_descriptor; the allocations and the events are the ones
\* the refresh phase has left, and no later step of the tick changes them.
C6_NoDemandStep ==
    \A d \in Ids :
        LET s == descriptors[d]
            u == descriptors'[d]
        IN  (u.t_scheduled /\ u.t_waiting = 0)
            => /\ u.pc = "idle"
               /\ u.t_calls = 0
               /\ \E r \in Refreshed(s) :
                     /\ u.allocations = r.allocations
                     /\ u.events = r.events

\* C6: if the feasible waiting-task count is 0 when the schedule phase of a
\* descriptor starts, then from there to the end of the tick no
\* schedule_allocation call is made, no allocation is added and no event is
\* appended for that descriptor, whatever the backlog is.
C6_NoDemandNoAllocation == [][C6_NoDemandStep]_vars

\* No task waits although the backlog has room.
C6_Witness ==
    \E d \in Ids :
        LET s == descriptors[d]
        IN  /\ TickDone(s)
            /\ s.t_waiting = 0
            /\ s.t_jobs = << >>
            /\ s.t_queued < s.info.backlog
            /\ s.t_count > 0

(* ------------------------------- C7 ------------------------------------ *)
\* C7: the waiting-task count of a descriptor is the sum of the waiting tasks
\* of the jobs whose min_time is strictly less than the time limit of the
\* queue (a job with min_time >= the time limit counts 0); if every job is
\* infeasible the tick makes no schedule_allocation call and adds no allocation.
C7_WalltimeGate ==
    \A d \in Ids :
        LET s == descriptors[d]
            feasible == FeasibleJobs(s.t_jobs, s.info.timelimit)
        IN  s.t_scheduled
            => /\ s.t_waiting = WaitingOf(s.t_jobs, feasible)
               /\ feasible = {}
                  => /\ s.pc = "idle"
                     /\ s.t_calls = 0
                     /\ Cardinality(all_allocations(s)) = s.t_count

\* Waiting tasks of a job that asks for exactly the time limit were left out,
\* next to counted ones of a feasible job.
C7_Witness ==
    \E d \in Ids :
        LET s == descriptors[d]
        IN  /\ TickDone(s)
            /\ \E i \in DOMAIN s.t_jobs :
                  /\ s.t_jobs[i].min_time = s.info.timelimit
                  /\ s.t_jobs[i].n_waiting > 0
            /\ \E i \in DOMAIN s.t_jobs :
                  /\ s.t_jobs[i].min_time < s.info.timelimit
                  /\ s.t_jobs[i].n_waiting > 0
            /\ s.t_oks > 0

(* ------------------------------- C8 ------------------------------------ *)
\* C8: with plenty of waiting tasks and a handler whose schedule_allocation
\* always succeeds, the number of Queued allocations at the end of a tick
\* equals the backlog.
C8_BacklogRefilled ==
    \A d \in Ids :
        LET s == descriptors[d]
        IN  ( /\ TickDone(s)
              /\ s.t_waiting >= s.info.backlog * s.info.workers_per_alloc
              /\ s.t_errs = 0 )
            => Cardinality(queued_allocations(s)) = s.info.backlog

(* ------------------------------- C9 ------------------------------------ *)
\* A schedule_allocation call of descriptor d has just returned an error.
ScheduleFailed(d) == descriptors'[d].t_errs = descriptors[d].t_errs + 1

\* C9, the step: a failed schedule_allocation call adds no allocation, logs
\* exactly one QueueFail event, leaves waiting_tasks as it is, and the loop
\* makes its next call if an iteration is left.
C9_FailedStep ==
    \A d \in Ids :
        ScheduleFailed(d) =>
            LET s == descriptors[d]
                u == descriptors'[d]
            IN  /\ u.allocations = s.allocations
                /\ u.events = Logged(s.events, Event("QueueFail", NoAlloc))
                /\ u.t_oks = s.t_oks
                /\ IF s.iterations_left > 0
                   THEN /\ u.pc = "schedule"
                        /\ u.waiting_tasks = s.waiting_tasks
                        /\ u.t_calls = s.t_calls + 1
                        /\ u.iterations_left = s.iterations_left - 1
                   ELSE u.pc = "idle" /\ u.t_calls = s.t_calls

\* C9, the tick: with at least one feasible waiting task and a handler that
\* fails every call, the tick makes backlog - queued calls (saturating), adds
\* no allocation and logs one QueueFail event per call (the last events of
\* the log, as many as there were calls, are QueueFail events).
C9_FailedTick ==
    \A d \in Ids :
        LET s == descriptors[d]
        IN  (TickDone(s) /\ s.t_waiting > 0 /\ s.t_oks = 0)
            => /\ s.t_calls = saturating_sub(s.info.backlog, s.t_queued)
               /\ s.t_errs = s.t_calls
               /\ Cardinality(all_allocations(s)) = s.t_count
               /\ Len(s.events) >= Min(s.t_calls, EventCap)
               /\ \A i \in DOMAIN s.events :
                     i > Len(s.events) - s.t_calls
                        => s.events[i] = Event("QueueFail", NoAlloc)

C9_FailureIsNotFatal == [][C9_FailedStep]_vars /\ []C9_FailedTick

\* Every call of a tick with room for two allocations has failed.
C9_Witness ==
    \E d \in Ids :
        LET s == descriptors[d]
        IN  /\ TickDone(s)
            /\ s.t_waiting > 0
            /\ s.t_oks = 0
            /\ s.t_errs >= 2

(* ------------------------------- C10 ----------------------------------- *)
\* A get_allocation_status call of descriptor d has just returned an error.
StatusFailed(d) == descriptors'[d].t_status_fails = descriptors[d].t_status_fails + 1

\* C10: when get_allocation_status returns an error, one StatusFail event is
\* logged, the allocation map is left as it is, and the refresh goes on with
\* the next of the remaining allocations (or, if none is left, with the
\* schedule phase) in the same tick.
C10_StatusFailStep ==
    \A d \in Ids :
        StatusFailed(d) =>
            LET s == descriptors[d]
                u == descriptors'[d]
                log == Logged(s.events, Event("StatusFail", NoAlloc))
            IN  /\ s.pc = "status"
                /\ s.allocation_id \in DOMAIN s.allocations
                /\ u.allocations = s.allocations
                /\ u.events = log
                /\ IF s.allocation_ids /= {}
                   THEN /\ u.pc = "status"
                        /\ u.allocation_id \in s.allocation_ids
                        /\ u.allocation_ids = s.allocation_ids \ {u.allocation_id}
                        /\ ~u.t_scheduled
                   ELSE /\ u.t_scheduled
                        /\ u.t_count = Cardinality(all_allocations(s))

C10_StatusFailure == [][C10_StatusFailStep]_vars

\* After a failed status call the next allocation is being queried, and the
\* allocation of the failed call is still in the map.
C10_Witness ==
    \E d \in Ids :
        LET s == descriptors[d]
        IN  /\ s.pc = "status"
            /\ s.t_status_fails >= 1
            /\ Cardinality(active_allocations(s)) >= 2
            /\ Len(s.events) > 0
            /\ s.events[Len(s.events)].kind = "StatusFail"

(* ------------------------------- C11 ---------------------------------- *)
\* The allocations of s that were created and are not in the map any more.
Gone(s) == (0 .. (s.next_id - 1)) \ DOMAIN s.allocations

\* C11, the answer: at every awaited status call, the answer Ok(None) removes
\* the queried allocation from the map, leaves every other allocation as it
\* is and appends one AllocationDisappeared(id) event; and an allocation that
\* is gone from the map is neither queried nor waiting to be queried.
C11_NoneAnswer ==
    \A d \in Ids :
        LET s == descriptors[d]
            id == s.allocation_id
            r == on_status(s, id, "None")
        IN  /\ s.allocation_ids \cap Gone(s) = {}
            /\ s.pc = "status"
               => /\ id \in DOMAIN s.allocations
                  /\ DOMAIN r.allocations = DOMAIN s.allocations \ {id}
                  /\ \A a \in DOMAIN r.allocations : r.allocations[a] = s.allocations[a]
                  /\ r.events = Logged(s.events, Event("AllocationDisappeared", id))

\* C11, the step: a step that takes an allocation out of the map is the
\* return of the status call for that allocation; it appends one
\* AllocationDisappeared(id) event and changes no other allocation.
C11_RemovalStep ==
    \A d \in Ids :
        LET s == descriptors[d]
            u == descriptors'[d]
        IN  \A a \in DOMAIN s.allocations \ DOMAIN u.allocations :
                /\ s.pc = "status"
                /\ a = s.allocation_id
                /\ u.allocations = [b \in DOMAIN s.allocations \ {a} |-> s.allocations[b]]
                /\ u.events = Logged(s.events, Event("AllocationDisappeared", a))

\* C11: when get_allocation_status returns Ok(None), refresh removes the
\* allocation from the map and appends one AllocationDisappeared(id) event;
\* the allocation is never queried in a later tick and no other allocation of
\* the descriptor is changed.
C11_Disappeared == []C11_NoneAnswer /\ [][C11_RemovalStep]_vars

\* A tick after the one in which an allocation disappeared queries another
\* allocation of the descriptor.
C11_Witness ==
    \E d \in Ids :
        LET s == descriptors[d]
        IN  /\ s.pc = "status"
            /\ Gone(s) /= {}
            /\ s.t_allocs = Cardinality(all_allocations(s))
            /\ Len(s.events) > 0
            /\ \E i \in DOMAIN s.events : s.events[i].kind = "AllocationDisappeared"

(* ------------------------------- C12 ---------------------------------- *)
\* C12, the answer: at every awaited status call, the answer Running makes
\* the stored status of the queried allocation Running and leaves the other
\* allocations as they are; AllocationStarted(id) is appended if the stored
\* status was Queued, and no event is appended otherwise.
C12_RunningAnswer ==
    \A d \in Ids :
        LET s == descriptors[d]
            id == s.allocation_id
            r == on_status(s, id, "Running")
        IN  s.pc = "status"
            => /\ DOMAIN r.allocations = DOMAIN s.allocations
               /\ r.allocations[id].status = "Running"
               /\ \A a \in DOMAIN s.allocations \ {id} : r.allocations[a] = s.allocations[a]
               /\ r.events = IF s.allocations[id].status = "Queued"
                             THEN Logged(s.events, Event("AllocationStarted", id))
                             ELSE s.events

\* C12, the step: a step appends AllocationStarted(a) exactly when it takes the
\* stored status of a from Queued to Running.
C12_StartedStep ==
    \A d \in Ids :
        LET s == descriptors[d]
            u == descriptors'[d]
        IN  \A a \in DOMAIN s.allocations \cap DOMAIN u.allocations :
                LET started == /\ s.allocations[a].status = "Queued"
                               /\ u.allocations[a].status = "Running"
                    logged == /\ u.events /= s.events
                              /\ u.events = Logged(s.events, Event("AllocationStarted", a))
                IN started <=> logged

\* C12: when a refresh gets Running for an allocation, AllocationStarted(id)
\* is appended if and only if the stored status was Queued, and the stored
\* status becomes Running; a Running allocation that is reported Running
\* again produces no event.
C12_StartedOnce == []C12_RunningAnswer /\ [][C12_StartedStep]_vars

\* A Running allocation is queried again, its AllocationStarted event is
\* still the last one of the log.
C12_Witness ==
    \E d \in Ids :
        LET s == descriptors[d]
        IN  /\ s.pc = "status"
            /\ s.allocations[s.allocation_id].status = "Running"
            /\ s.events /= << >>
            /\ s.events[Len(s.events)] = Event("AllocationStarted", s.allocation_id)

(* ------------------------------- C13 ---------------------------------- *)
Ended(alloc) == alloc.status \in {"Finished", "Failed"}

EndedKind(status) == IF status = "Finished" THEN "AllocationFinished" ELSE "AllocationFailed"

\* C13, the answer: at every awaited status call the queried allocation and
\* the ones still to be queried are Queued or Running; the answer Finished
\* (Failed) appends one AllocationFinished (AllocationFailed) event and keeps
\* the allocation in the map with that status, the others as they are; and
\* the log holds at most one such event per allocation.
C13_EndedAnswer ==
    \A d \in Ids :
        LET s == descriptors[d]
            id == s.allocation_id
        IN  /\ \A a \in s.allocation_ids :
                  a \in DOMAIN s.allocations /\ ~Ended(s.allocations[a])
            /\ \A a \in DOMAIN s.allocations :
                  Cardinality({ i \in DOMAIN s.events :
                                   /\ s.events[i].id = a
                                   /\ s.events[i].kind \in {"AllocationFinished",
                                                            "AllocationFailed"} }) <= 1
            /\ s.pc = "status"
               => /\ id \in DOMAIN s.allocations
                  /\ ~Ended(s.allocations[id])
                  /\ \A status \in {"Finished", "Failed"} :
                        LET r == on_status(s, id, status)
                        IN  /\ r.allocations = [s.allocations EXCEPT ![id].status = status]
                            /\ r.events = Logged(s.events, Event(EndedKind(status), id))

\* C13, the step: no step changes or removes an allocation that is Finished
\* or Failed, and no step appends an event about it.
C13_EndedStep ==
    \A d \in Ids :
        LET s == descriptors[d]
            u == descriptors'[d]
        IN  \A a \in DOMAIN s.allocations :
                Ended(s.allocations[a])
                => /\ a \in DOMAIN u.allocations
                   /\ u.allocations[a] = s.allocations[a]
                   /\ \/ u.events = s.events
                      \/ \A kind \in {"AllocationQueued", "AllocationStarted",
                                      "AllocationFinished", "AllocationFailed",
                                      "AllocationDisappeared"} :
                            u.events /= Logged(s.events, Event(kind, a))

\* C13: Finished and Failed are terminal: the answer appends one
\* AllocationFinished (AllocationFailed) event and the allocation stays in the
\* map with that status; from then on it is never queried, its status never
\* changes and no further event about it is appended.
C13_Terminal == []C13_EndedAnswer /\ [][C13_EndedStep]_vars

\* A tick queries an allocation while the map holds a Finished and a Failed
\* allocation.
C13_Witness ==
    \E d \in Ids :
        LET s == descriptors[d]
        IN  /\ s.pc = "status"
            /\ s.t_allocs = Cardinality(all_allocations(s))
            /\ \E a \in DOMAIN s.allocations : s.allocations[a].status = "Finished"
            /\ \E a \in DOMAIN s.allocations : s.allocations[a].status = "Failed"

(* ------------------------------- C14 ---------------------------------- *)
\* The place of a status in Queued -> Running -> {Finished, Failed}.
Rank(status) == CASE status = "Queued" -> 0 [] status = "Running" -> 1 [] OTHER -> 2

\* No step takes the stored status of an allocation backwards.
C14_ForwardStep ==
    \A d \in Ids :
        LET s == descriptors[d]
            u == descriptors'[d]
        IN  \A a \in DOMAIN s.allocations \cap DOMAIN u.allocations :
                Rank(u.allocations[a].status) >= Rank(s.allocations[a].status)

\* C14: the stored status of an allocation only moves forward along
\* Queued -> Running -> {Finished, Failed}; in particular the stored status of
\* a Running allocation never returns to Queued, for any handler answers.
C14_ForwardOnly == [][C14_ForwardStep]_vars

(* ------------------------------- C15 ---------------------------------- *)
\* The <<descriptor, allocation>> pairs of the allocations that are Queued or
\* Running in a descriptor of the autoalloc state.
ActivePairs ==
    { x \in Ids \X (0 .. (MaxAllocs - 1)) :
         /\ ~descriptors[x[1]].removed
         /\ x[2] \in DOMAIN descriptors[x[1]].allocations
         /\ descriptors[x[1]].allocations[x[2]].status \in {"Queued", "Running"} }

\* C15, the state: every call of the shutdown is made once, the awaited calls
\* are among the calls made, the failed ones among the returned, and the
\* shutdown is done exactly when no call is awaited.
C15_RemovalCalls ==
    /\ \A x \in DOMAIN shutdown.calls : shutdown.calls[x] = 1
    /\ shutdown.pending \subseteq DOMAIN shutdown.calls
    /\ shutdown.failed \subseteq DOMAIN shutdown.calls \ shutdown.pending
    /\ shutdown.pc = "idle" => DOMAIN shutdown.calls = {}
    /\ shutdown.pc = "removing" <=> shutdown.pending /= {}

\* C15, the step: the step that starts the shutdown calls remove_allocation
\* for exactly the allocations that are active at that moment; no later step
\* makes or drops a call, and a returning call (failed or not) leaves the
\* other calls awaited.
C15_SnapshotStep ==
    /\ (shutdown.pc = "idle" /\ shutdown'.pc /= "idle")
          => /\ DOMAIN shutdown'.calls = ActivePairs
             /\ shutdown'.pending = ActivePairs
    /\ shutdown.pc /= "idle"
          => /\ shutdown'.calls = shutdown.calls
             /\ shutdown'.pending \subseteq shutdown.pending
             /\ Cardinality(shutdown.pending \ shutdown'.pending) <= 1

\* C15: autoalloc_shutdown calls handler.remove_allocation exactly once for
\* each allocation that is active (Queued or Running) in any descriptor at
\* the moment of the snapshot, never for a Finished, Failed or removed one; a
\* failing removal does not prevent the removal calls for the others.
C15_ShutdownRemovesActive == []C15_RemovalCalls /\ [][C15_SnapshotStep]_vars

\* The shutdown is done: allocations of both descriptors were removed, a
\* removal failed, and a Finished allocation was left out.
C15_Witness ==
    /\ shutdown.pc = "done"
    /\ shutdown.failed /= {}
    /\ \A d \in Ids : \E x \in DOMAIN shutdown.calls : x[1] = d
    /\ DOMAIN shutdown.calls \ shutdown.failed /= {}
    /\ \E d \in Ids : \E a \in DOMAIN descriptors[d].allocations :
          /\ descriptors[d].allocations[a].status = "Finished"
          /\ <<d, a>> \notin DOMAIN shutdown.calls

(* ------------------------------- C16 ---------------------------------- *)
\* C16: when autoalloc_shutdown has returned, no descriptor holds a Queued or
\* Running allocation for which handler.remove_allocation was not called,
\* also when a tick was suspended on a handler call during the shutdown.
C16_ReturnStep ==
    (shutdown.pc /= "done" /\ shutdown'.pc = "done")
        => \A d \in Ids : \A a \in DOMAIN descriptors'[d].allocations :
              (~descriptors'[d].removed /\ is_active(descriptors'[d].allocations[a]))
                 => <<d, a>> \in DOMAIN shutdown'.calls

C16_NoActiveLeft == [][C16_ReturnStep]_vars

(* ------------------------------- C17 ---------------------------------- *)
\* C17, the state: while a status call is awaited or allocations are left to
\* be queried the schedule phase has not begun (no count read, no
\* schedule_allocation call made); once it has begun no status call is
\* awaited and none is left to make.
C17_PhaseOrder ==
    \A d \in Ids :
        LET s == descriptors[d]
        IN  /\ (s.pc = "status" \/ s.allocation_ids /= {})
               => ~s.t_scheduled /\ s.t_calls = 0
            /\ s.pc = "schedule" => s.t_scheduled /\ s.in_flight = 1
            /\ s.t_scheduled => s.pc /= "status" /\ s.allocation_ids = {}

\* C17, the step: the step that begins the schedule phase is the start of a
\* tick without active allocations or the return of the last status call of
\* the tick, and the number of Queued allocations it reads is the one of the
\* map with the answer to that call applied.
C17_ScheduleStartStep ==
    \A d \in Ids :
        LET s == descriptors[d]
            u == descriptors'[d]
        IN  (u.t_scheduled /\ (~s.t_scheduled \/ s.pc = "idle") /\ u /= s)
            => /\ \/ s.pc = "idle" /\ active_allocations(s) = {}
                  \/ s.pc = "status" /\ s.allocation_ids = {}
               /\ u.t_queued = Cardinality(queued_allocations(u))
               /\ \E r \in Refreshed(s) :
                     /\ u.allocations = r.allocations
                     /\ u.t_queued = Cardinality(queued_allocations(r))
               /\ u.t_calls <= 1

\* C17: within one tick and for one descriptor every get_allocation_status
\* call has completed and its result has been applied before the
\* queued-allocation count is read and before the first schedule_allocation
\* call.
C17_RefreshBeforeSchedule == []C17_PhaseOrder /\ [][C17_ScheduleStartStep]_vars

\* A schedule_allocation call is awaited in a tick that has queried two
\* allocations and found one of them Running.
C17_Witness ==
    \E d \in Ids :
        LET s == descriptors[d]
        IN  /\ s.pc = "schedule"
            /\ s.t_allocs >= 2
            /\ s.t_queued < s.t_queued_start

(* ------------------------------- C18 ---------------------------------- *)
\* C18: during an autoalloc tick at most one handler call
\* (get_allocation_status or schedule_allocation) is in flight per descriptor
\* at any moment: a call is in flight exactly while the future of the
\* descriptor is suspended on it. Calls of different descriptors may be in
\* flight at the same time (C18_Witness).
C18_OneCallInFlight ==
    \A d \in Ids :
        LET s == descriptors[d]
        IN  /\ s.in_flight <= 1
            /\ s.in_flight = 1 <=> s.pc \in {"status", "schedule"}

\* A status call of one descriptor and a schedule call of another one are
\* in flight at the same time.
C18_Witness ==
    \E d, e \in Ids :
        /\ d /= e
        /\ descriptors[d].pc = "status" /\ descriptors[d].in_flight = 1
        /\ descriptors[e].pc = "schedule" /\ descriptors[e].in_flight = 1

(* ------------------------------- C19 ---------------------------------- *)
\* A tick starts in this step.
TickStarts == ticks' = ticks + 1

\* C19, the step: when a tick starts, every per-descriptor future of the tick
\* before has completed (no future is suspended, no handler call in flight).
C19_TickStartStep ==
    TickStarts => \A d \in Ids : descriptors[d].pc = "idle" /\ descriptors[d].in_flight = 0

\* C19: autoalloc ticks never overlap: tick n+1 starts only after every
\* per-descriptor future of tick n has completed, however long the handler
\* calls of tick n take.
C19_TicksDoNotOverlap == [][C19_TickStartStep]_vars

\* The second tick runs: the future of one descriptor is complete, the one of
\* another descriptor is suspended on a handler call.
C19_Witness ==
    /\ ticks = 2
    /\ \E d, e \in Ids :
          /\ descriptors[d].pc = "idle"
          /\ descriptors[e].pc /= "idle"
          /\ descriptors[d].t_scheduled

(* ------------------------------- C20 ---------------------------------- *)
\* C20, the state: nothing is stored for a removed descriptor, and its
\* future is in an ordinary position: complete or suspended on one call.
C20_RemovedState ==
    \A d \in Ids :
        LET s == descriptors[d]
        IN  s.removed
            => /\ s.allocations = << >>
               /\ s.events = << >>
               /\ s.pc \in {"idle", "status", "schedule"}
               /\ s.in_flight = IF s.pc = "idle" THEN 0 ELSE 1

\* C20, the step: the only step of a removed descriptor is the return of the
\* handler call that was awaited when it was removed; it completes the
\* future of the descriptor, makes no further handler call, writes nothing
\* for it and changes no other descriptor.
C20_RemovedStep ==
    \A d \in Ids :
        LET s == descriptors[d]
            u == descriptors'[d]
        IN  (s.removed /\ u /= s)
            => /\ s.pc \in {"status", "schedule"}
               /\ u = [s EXCEPT !.pc = "idle", !.allocation_id = NoAlloc,
                                !.iterations_left = 0, !.waiting_tasks = 0,
                                !.in_flight = 0]
               /\ \A e \in Ids \ {d} : descriptors'[e] = descriptors[e]
               /\ UNCHANGED <<ticks, shutdown>>

\* C20: if a descriptor is removed while one of its handler calls is
\* awaited, its processing ends as an ordinary early return: no error state,
\* no further handler call, nothing written for it, and the other
\* descriptors of the tick are unaffected.
C20_RemovedDescriptor == []C20_RemovedState /\ [][C20_RemovedStep]_vars

\* A descriptor was removed while a status call of the second tick was
\* awaited and its future is complete; the other descriptor has refreshed
\* its allocation and created one in the same tick.
C20_Witness ==
    \E d, e \in Ids :
        /\ d /= e
        /\ ticks = 2
        /\ descriptors[d].removed
        /\ descriptors[d].pc = "idle"
        /\ descriptors[d].t_allocs > 0
        /\ ~descriptors[d].t_scheduled
        /\ ~descriptors[e].removed
        /\ descriptors[e].pc = "idle"
        /\ descriptors[e].t_allocs > 0
        /\ descriptors[e].t_oks > 0

(* -------------------- properties of the scheduler core ----------------- *)
\* the sum of the resource requests of the tasks ts
RECURSIVE RequestSum(_)
RequestSum(ts) ==
    IF ts = {} THEN [n_cpus |-> 0, generic |-> 0]
    ELSE LET t == CHOOSE x \in ts : TRUE
             rest == RequestSum(ts \ {t})
         IN  [n_cpus |-> rest.n_cpus + core.tasks[t].resources.n_cpus,
              generic |-> rest.generic + core.tasks[t].resources.generic]

\* the workers that have the task in their task set
Holders(c, t) == { w \in DOMAIN c.workers : t \in c.workers[w].tasks }

\* the task is being stolen and the source worker has not answered yet
InSteal(t) ==
    /\ core.tasks[t].state = "Assigned"
    /\ core.tasks[t].steal_from /= NoWorker
    /\ <<t, core.tasks[t].steal_from>> \in core.steals

\* C24: the load of every worker is the sum of the resource requests of the
\* tasks in its task set, after every reactor event and every scheduling
\* pass, also while a task is being stolen from it or to it.
C24_LoadIsSumOfRequests ==
    \A w \in DOMAIN core.workers :
        /\ core.workers[w].tasks \subseteq DOMAIN core.tasks
        /\ core.workers[w].load = RequestSum(core.workers[w].tasks)

\* A task is being stolen from a worker that holds another task to a worker
\* that holds the stolen task with another.
C24_Witness ==
    \E t \in DOMAIN core.tasks :
        /\ InSteal(t)
        /\ core.tasks[t].steal_from \in DOMAIN core.workers
        /\ core.workers[core.tasks[t].steal_from].tasks /= {}
        /\ core.workers[core.tasks[t].worker].tasks = {t}
        /\ core.workers[core.tasks[t].worker].load = core.tasks[t].resources

\* C25: every task that is Assigned or Running is in the task set of
\* exactly one worker, also between the StealRequest and its StealResponse.
C25_ExactlyOneWorker ==
    \A t \in DOMAIN core.tasks :
        core.tasks[t].state \in {"Assigned", "Running"}
            => Cardinality(Holders(core, t)) = 1

\* One task is being stolen (the request is sent, the answer is not there)
\* while another task runs.
C25_Witness ==
    \E t, u \in DOMAIN core.tasks :
        /\ InSteal(t)
        /\ core.tasks[u].state = "Running"
        /\ Holders(core, t) = {core.tasks[t].worker}

\* What fail_steal must leave of the steal of task t from worker w to worker
\* g in state c: r is the core after the Running answer.
StolenTooLate(c, r, t, w, g) ==
    /\ r.tasks[t].state = "Running"
    /\ r.tasks[t].worker = w
    /\ r.tasks[t].steal_from = NoWorker
    /\ t \in r.workers[w].tasks
    /\ t \notin r.workers[g].tasks
    /\ r.workers[g].load.n_cpus + c.tasks[t].resources.n_cpus
           = c.workers[g].load.n_cpus
    /\ r.workers[g].load.generic + c.tasks[t].resources.generic
           = c.workers[g].load.generic

\* Whatever steal the scheduler may decide on in a state, a Running answer
\* of the source leaves the task running on the source and off the target;
\* the same holds of the steals that are unanswered.
C26_RunningAnswer ==
    /\ \A x \in steal_choices(core) :
          LET t == x[1]
              w == core.tasks[t].worker
              started == start_stealing(core, t, x[2])
          IN  /\ core.tasks[t].state /= "Running"
              /\ StolenTooLate(started, fail_steal(core, t, w, x[2]), t, w, x[2])
    /\ \A t \in DOMAIN core.tasks :
          InSteal(t) =>
             LET w == core.tasks[t].steal_from
                 g == core.tasks[t].worker
             IN  w \in DOMAIN core.workers
                    => StolenTooLate(core, on_steal_response(core, w, t, "Running"),
                                     t, w, g)

\* A step never starts the steal of a task that is Running, and a task that
\* is Running while a StealRequest for it is sent or unanswered stays so,
\* on the same worker.
C26_StealStep ==
    /\ \A x \in core'.steals \ core.steals :
          /\ core.tasks[x[1]].state /= "Running"
          /\ core.tasks[x[1]].worker = x[2]
    /\ \A x \in core.steals :
          (/\ x[1] \in DOMAIN core.tasks
           /\ core.tasks[x[1]].state = "Running"
           /\ core'.tasks[x[1]].state \in {"Assigned", "Running"}
           /\ core.tasks[x[1]].worker \in DOMAIN core'.workers)
             => /\ core'.tasks[x[1]].state = "Running"
                /\ core'.tasks[x[1]].worker = core.tasks[x[1]].worker

\* C26: steal-too-late. A Running task is never chosen for a steal, and when
\* the source worker answers a StealRequest with Running the task stays
\* assigned to the source, leaves the task set of the target and the load
\* of the target for it is released.
C26_StealTooLate == []C26_RunningAnswer /\ [][C26_StealStep]_vars

\* A Running answer has rolled a steal back: the task runs on its source
\* worker, which holds it, and the target holds nothing.
C26_Witness ==
    \E t \in core.t_late, g \in DOMAIN core.workers :
        /\ core.tasks[t].state = "Running"
        /\ core.tasks[t].worker /= g
        /\ Holders(core, t) = {core.tasks[t].worker}
        /\ core.workers[g].tasks = {}
        /\ core.workers[g].load = NoResources

\* the tasks Assigned or Running on worker w
TasksOn(c, w) ==
    { t \in DOMAIN c.tasks :
        /\ c.tasks[t].state \in {"Assigned", "Running"}
        /\ t \in c.workers[w].tasks }

\* A step that loses a worker (its notification is the last of
\* lost_workers) re-readies the tasks of the worker and nothing else.
C27_LostStep ==
    core'.lost_workers /= core.lost_workers =>
        /\ Len(core'.lost_workers) = Len(core.lost_workers) + 1
        /\ SubSeq(core'.lost_workers, 1, Len(core.lost_workers)) = core.lost_workers
        /\ LET w == core'.lost_workers[Len(core'.lost_workers)][1]
               ids == core'.lost_workers[Len(core'.lost_workers)][2]
           IN  /\ w \in DOMAIN core.workers
               /\ w \notin DOMAIN core'.workers
               /\ ids = TasksOn(core, w)
               /\ \A t \in ids :
                     /\ core'.tasks[t].state = "Ready"
                     /\ core'.tasks[t].worker = NoWorker
                     /\ t \in core'.ready_to_assign
                     /\ Holders(core', t) = {}
               /\ DOMAIN core'.workers = DOMAIN core.workers \ {w}
               /\ \A x \in DOMAIN core'.workers : core'.workers[x] = core.workers[x]
               /\ DOMAIN core'.tasks = DOMAIN core.tasks
               /\ \A t \in DOMAIN core.tasks \ ids :
                     /\ core'.tasks[t].state = core.tasks[t].state
                     /\ core'.tasks[t].worker = core.tasks[t].worker
                     /\ core'.tasks[t].inputs = core.tasks[t].inputs

Invalid(batch) ==
    \/ DOMAIN batch \cap DOMAIN core.tasks /= {}
    \/ UNION { batch[i].inputs : i \in DOMAIN batch }
           \ (DOMAIN core.tasks \cup DOMAIN batch) /= {}

\* C28: on_new_tasks is atomic. A batch with an existing task id or with an
\* input that is neither known nor in the batch leaves the tasks, the ready
\* queue and the workers unchanged; any other batch adds all its tasks, the
\* ones without inputs as Ready, and leaves the tasks before as they were.
C28_AtomicBatch ==
    \A batch \in Batches :
        LET r == submit_test_tasks(core, batch)
        IN  IF Invalid(batch)
            THEN /\ r.tasks = core.tasks
                 /\ r.ready_to_assign = core.ready_to_assign
                 /\ r.workers = core.workers
            ELSE /\ DOMAIN r.tasks = DOMAIN core.tasks \cup DOMAIN batch
                 /\ \A i \in DOMAIN core.tasks : r.tasks[i] = core.tasks[i]
                 /\ \A i \in DOMAIN batch :
                       /\ r.tasks[i].inputs = batch[i].inputs
                       /\ batch[i].inputs = {}
                             => /\ r.tasks[i].state = "Ready"
                                /\ i \in r.ready_to_assign
                 /\ r.workers = core.workers

\* A batch was accepted (a task without inputs is there and ready), a worker
\* has joined, and the core is in a state where one batch would be rejected
\* for its task id, one for its input, and one would be accepted.
C28_Witness ==
    /\ \E i \in DOMAIN core.tasks :
          /\ core.tasks[i].inputs = {} /\ core.tasks[i].state = "Ready"
          /\ i \in core.ready_to_assign
    /\ DOMAIN core.workers /= {}
    /\ \E batch \in Batches : DOMAIN batch \cap DOMAIN core.tasks /= {}
    /\ \E batch \in Batches :
          /\ DOMAIN batch \cap DOMAIN core.tasks = {}
          /\ Invalid(batch)
    /\ \E batch \in Batches : ~Invalid(batch)

\* every task in the ready queue is Ready and all its inputs are Finished
C29_ReadyQueue ==
    \A t \in core.ready_to_assign :
        /\ t \in DOMAIN core.tasks
        /\ core.tasks[t].state = "Ready"
        /\ \A dep \in core.tasks[t].inputs :
              dep \in DOMAIN core.tasks /\ core.tasks[dep].state = "Finished"

\* A step in which a task finishes moves to Ready exactly the waiting
\* consumers of the task whose inputs are all Finished after the step.
C29_FinishedStep ==
    \A t \in DOMAIN core.tasks :
        (core.tasks[t].state = "Running" /\ core'.tasks[t].state = "Finished")
          => { u \in DOMAIN core.tasks :
                 core.tasks[u].state = "Waiting" /\ core'.tasks[u].state = "Ready" }
             = { u \in DOMAIN core.tasks :
                   /\ core.tasks[u].state = "Waiting"
                   /\ t \in core.tasks[u].inputs
                   /\ \A dep \in core.tasks[u].inputs :
                         core'.tasks[dep].state = "Finished" }

\* C29: a task is in the ready queue only if all its dependencies are
\* Finished, after every reactor event and every scheduling pass, and
\* on_task_finished moves to Ready exactly the consumers of the finished
\* task whose dependencies are all Finished by then.
C29_ReadyOnlyWithFinishedDeps == []C29_ReadyQueue /\ [][C29_FinishedStep]_vars

\* A task has finished: its consumer with no other input is in the ready
\* queue, and its consumer with an unfinished second input still waits.
C29_Witness ==
    \E t, u, v \in DOMAIN core.tasks :
        /\ core.tasks[t].state = "Finished"
        /\ core.tasks[v].inputs = {t, u}
        /\ core.tasks[u].state /= "Finished"
        /\ core.tasks[v].state = "Waiting"
        /\ core.tasks[u].inputs = {t}
        /\ u \in core.ready_to_assign

(* ------------------------------ event log ------------------------------ *)
\* The events of log are the first events of later.
Prefix(log, later) ==
    Len(log) <= Len(later) /\ SubSeq(later, 1, Len(log)) = log

\* C22 as stated: every step leaves the events already in the log unchanged
\* and only adds new events at the end.
C22_AppendOnly ==
    [][\A d \in Ids : Prefix(descriptors[d].events, descriptors'[d].events)]_vars

\* A step leaves the log of a descriptor as it is or adds one event at its
\* end; only when the log is full the oldest event makes room for it.
C22_RingStep ==
    \A d \in Ids :
        LET log == descriptors[d].events
            later == descriptors'[d].events
        IN  later /= log =>
               /\ Len(later) > 0
               /\ SubSeq(later, 1, Len(later) - 1)
                     = IF Len(log) < EventCap THEN log
                       ELSE SubSeq(log, 2, Len(log))

\* C22 (amended): the event log of a descriptor changes only by events added
\* at its end, in the order in which the tick observes them; the events in
\* the log keep their relative order, and an event leaves the log only as
\* the oldest one of a full log when a new event is added.
C22_AppendOnlyRing == [][C22_RingStep]_vars

\* The log is full and has dropped an event: more allocations were queued
\* than the log holds events.
C22_Witness ==
    \E d \in Ids :
        /\ Len(descriptors[d].events) = EventCap
        /\ descriptors[d].next_id > EventCap
        /\ descriptors[d].events[EventCap].kind = "AllocationQueued"

(* ------------------------ the client command --------------------------- *)
\* C23: the add command accepts a backlog only in 1..=100 and a
\* workers_per_alloc only >= 1; for any other value it returns an error and
\* sends no AddQueue request.
C23_InvalidQueueRejected ==
    /\ \A i \in DOMAIN client.sent :
          client.sent[i].request = "AddQueue"
             => /\ client.sent[i].params.backlog \in 1 .. 100
                /\ client.sent[i].params.workers_per_alloc >= 1
    /\ (client.command = "add" /\ client.pc = "done")
          => (client.result = "ok"
                <=> /\ client.params.backlog \in 1 .. 100
                    /\ client.params.workers_per_alloc >= 1)

\* the indices of the allocations with the status of the filter
Matching(allocations, filter) ==
    { i \in DOMAIN allocations : allocations[i].status = filter }

\* C30: info --filter keeps exactly the allocations whose status is the
\* chosen filter (queued, running, finished, failed), in their original
\* order; without a filter the list is unchanged; any other filter string
\* is rejected with an error.
C30_FilterKeepsMatching ==
    client.command = "info" /\ client.pc = "done" =>
        LET given == client.allocations
            chosen == CASE client.arg = "queued" -> "Queued"
                        [] client.arg = "running" -> "Running"
                        [] client.arg = "finished" -> "Finished"
                        [] client.arg = "failed" -> "Failed"
                        [] OTHER -> "None"
        IN  IF client.arg = "none"
            THEN client.result = "ok" /\ client.printed = given
            ELSE IF chosen = "None"
            THEN /\ client.result = "err"
                 /\ client.printed = NoOutput
                 /\ client.sent = << >>
            ELSE /\ client.result = "ok"
                 /\ Len(client.printed) = Cardinality(Matching(given, chosen))
                 /\ \A k \in DOMAIN client.printed :
                       \E i \in Matching(given, chosen) :
                          /\ Cardinality({ j \in Matching(given, chosen) : j <= i }) = k
                          /\ client.printed[k] = given[i]

\* A list with allocations of different statuses, in which the chosen
\* status occurs twice with another one in between, was filtered.
C30_Witness ==
    /\ client.pc = "done"
    /\ client.arg = "finished"
    /\ Len(client.allocations) = MaxInfo
    /\ client.allocations[1].status = "Finished"
    /\ client.allocations[2].status = "Failed"
    /\ client.allocations[MaxInfo].status = "Finished"
    /\ Len(client.printed) = 2

(* ------------------------------- C21 ----------------------------------- *)
\* the step is a step of the autoalloc loop or of its shutdown
AutoallocStep ==
    descriptors' /= descriptors \/ ticks' /= ticks \/ shutdown' /= shutdown

C21_FrameStep ==
    AutoallocStep =>
        /\ jobs' = jobs
        /\ core' = core
        /\ DOMAIN descriptors' = DOMAIN descriptors
        /\ \A d \in Ids :
              /\ descriptors'[d].info = descriptors[d].info
              /\ shutdown' /= shutdown => descriptors'[d] = descriptors[d]

\* C21: the autoalloc tick and autoalloc_shutdown only read the jobs, the
\* task counters and the workers: no step of refresh_allocations,
\* schedule_new_allocations or autoalloc_shutdown changes the jobs, a task
\* counter or the worker table; of a descriptor a tick changes the
\* allocations and the event log, never its queue parameters.
C21_OnlyReads == [][C21_FrameStep]_vars

\* The tick has counted the waiting tasks of the jobs and created an
\* allocation, the shutdown has removed it, and the jobs and a worker of
\* the server are there.
C21_Witness ==
    /\ jobs /= AnyJobs
    /\ jobs /= << >>
    /\ DOMAIN core.workers /= {}
    /\ shutdown.pc = "done"
    /\ shutdown.calls /= << >>
    /\ \E d \in Ids :
          /\ descriptors[d].t_oks > 0
          /\ descriptors[d].t_count > 0


(* ------------------------------ C31 ------------------------------------ *)
\* the tasks that u depends on, directly or through other tasks
RECURSIVE Ancestors(_, _)
Ancestors(c, u) ==
    c.tasks[u].inputs \cup UNION { Ancestors(c, d) : d \in c.tasks[u].inputs }

\* the tasks ts and every task that depends on one of them
Closure(c, ts) ==
    { u \in DOMAIN c.tasks : u \in ts \/ Ancestors(c, u) \cap ts /= {} }

\* the tasks that a step cancels
NewlyCancelled ==
    { t \in DOMAIN core.tasks :
        core.tasks[t].state /= "Cancelled" /\ core'.tasks[t].state = "Cancelled" }

\* the sum of the requests of the tasks ts, with the requests of core c
RECURSIVE RequestSumIn(_, _)
RequestSumIn(c, ts) ==
    IF ts = {} THEN NoResources
    ELSE LET t == CHOOSE x \in ts : TRUE
         IN  load_add(RequestSumIn(c, ts \ {t}), c.tasks[t].resources)

\* A step that cancels tasks cancels the closure of up to MaxBatch tasks and
\* nothing else.
C31_CancelStep ==
    NewlyCancelled /= {} =>
        \E roots \in SUBSET NewlyCancelled :
           LET closure == Closure(core, roots)
           IN
           /\ roots /= {} /\ Cardinality(roots) <= MaxBatch
           /\ DOMAIN core'.tasks = DOMAIN core.tasks
           /\ \A t \in closure :
                 /\ core'.tasks[t].state = "Cancelled"
                 /\ t \notin core'.ready_to_assign
                 /\ Holders(core', t) = {}
           /\ DOMAIN core'.workers = DOMAIN core.workers
           /\ \A w \in DOMAIN core.workers :
                 /\ core'.workers[w].tasks = core.workers[w].tasks \ closure
                 /\ load_add(core'.workers[w].load,
                             RequestSumIn(core, core.workers[w].tasks \cap closure))
                        = core.workers[w].load
           /\ \A t \in DOMAIN core.tasks \ closure : core'.tasks[t] = core.tasks[t]
           /\ core'.ready_to_assign = core.ready_to_assign \ closure
           /\ core'.cancel_msgs \ core.cancel_msgs =
                 { <<IF core.tasks[t].steal_from /= NoWorker
                     THEN core.tasks[t].steal_from ELSE core.tasks[t].worker, t>> :
                     t \in { u \in closure :
                               core.tasks[u].state \in {"Assigned", "Running"} } }
           /\ core.cancel_msgs \subseteq core'.cancel_msgs

\* C31: on_cancel_tasks(ids) cancels the given tasks and every task of their
\* transitive consumer closure: afterwards none of them is in the ready
\* queue or in the task set of a worker, the load they reserved is
\* released, no task outside the closure changes, and every worker that had
\* an assigned or running instance of one of them gets a cancel message.
C31_CancelClosure == [][C31_CancelStep]_vars

\* A worker has got the cancel message of a cancelled task, a consumer of
\* the task is cancelled with it, and a task outside the closure still runs
\* on a worker that holds nothing else.
C31_Witness ==
    /\ \E t, u \in DOMAIN core.tasks :
          /\ t \in core.tasks[u].inputs
          /\ core.tasks[t].state = "Cancelled"
          /\ core.tasks[u].state = "Cancelled"
          /\ \E x \in core.cancel_msgs : x[2] = t /\ x[1] \in DOMAIN core.workers
    /\ \E v \in DOMAIN core.tasks, w \in DOMAIN core.workers :
          /\ core.tasks[v].state = "Running"
          /\ core.workers[w].tasks = {v}
          /\ core.workers[w].load = core.tasks[v].resources


(* ------------------------------ C32 ------------------------------------ *)
\* the largest number of schedule_allocation calls of the tick of s: the
\* room that the Queued allocations left in the backlog when the schedule
\* phase began
CallLimit(s) == IF s.info.backlog > s.t_queued THEN s.info.backlog - s.t_queued ELSE 0

\* C32: in one tick the number of schedule_allocation calls for a descriptor
\* is at most max(0, backlog - queued), with queued counted once when the
\* schedule phase begins: the calls made and the iterations left never
\* exceed it, whatever the handler answers and whatever jobs the server has
\* by then, and it is 0 when more allocations are Queued than the backlog.
C32_CallsAtMostBacklogRoom ==
    \A d \in DOMAIN descriptors :
        LET s == descriptors[d]
        IN  /\ s.t_calls = s.t_oks + s.t_errs + (IF s.pc = "schedule" THEN 1 ELSE 0)
            /\ s.t_scheduled =>
                  /\ s.t_calls + s.iterations_left <= CallLimit(s)
                  /\ s.t_queued > s.info.backlog => s.t_calls = 0
            /\ ~s.t_scheduled => s.t_calls = 0

\* A descriptor has begun its schedule phase with tasks waiting and more
\* Queued allocations than its backlog, and its tick has ended.
C32_Witness ==
    \E d \in DOMAIN descriptors :
        LET s == descriptors[d]
        IN  /\ s.t_scheduled
            /\ s.t_waiting > 0
            /\ s.t_queued > s.info.backlog
            /\ s.pc = "idle"
            /\ s.t_calls = 0


(* ------------------------------ C33 ------------------------------------ *)
\* A step in which the schedule_allocation call of a descriptor returns
\* Ok(created) leaves the created allocation in the map of the descriptor,
\* Queued and with workers_per_alloc workers, and AllocationQueued(id) as
\* the last event of its log.
C33_OkStep ==
    \A d \in DOMAIN descriptors :
        ScheduleOk(d) =>
            LET s == descriptors[d]
                u == descriptors'[d]
                id == s.next_id
            IN  /\ id \in DOMAIN u.allocations
                /\ u.allocations[id] = [status |-> "Queued",
                                        worker_count |-> s.info.workers_per_alloc]
                /\ u.events /= << >>
                /\ u.events[Len(u.events)] = Event("AllocationQueued", id)

\* C33: every allocation that the handler created is tracked: each
\* schedule_allocation call that returns Ok is followed in one step by the
\* AllocationQueued(id) event and by the allocation id, Queued and with
\* worker_count = workers_per_alloc, in the map of the descriptor, under
\* any interleaving with the removal of the queue.
C33_CreatedIsTracked == [][C33_OkStep]_vars


(* ------------------------------ C34 ------------------------------------ *)
\* What the return of the awaited handler call can make of the descriptor
\* s, for every answer of the handler and every set of jobs: a function of
\* s alone.
Completions(s) ==
    IF s.pc = "status"
    THEN IF s.removed THEN { descriptor_gone(returned(s)) }
         ELSE { next_status(on_status(returned(s), s.allocation_id, answer), js) :
                  answer \in StatusAnswers, js \in JobSets }
    ELSE IF s.pc = "schedule"
    THEN IF s.removed THEN { descriptor_gone(returned(s)) }
         ELSE { on_schedule_ok(returned(s)), on_schedule_err(returned(s)) }
    ELSE {}

\* Every step changes a descriptor by its own state alone: the start of a
\* tick starts each descriptor from its own allocations, and between two
\* ticks a step is the return of one handler call (or the removal) of one
\* descriptor, which leaves every other descriptor as it is.
C34_LocalStep ==
    \A d \in Ids :
        descriptors'[d] /= descriptors[d] =>
            \/ /\ ticks' = ticks + 1
               /\ descriptors'[d] \in
                     { refresh_allocations(descriptors[d], js) : js \in JobSets }
            \/ /\ ticks' = ticks
               /\ descriptors'[d] \in
                     Completions(descriptors[d]) \cup {remove_descriptor(descriptors[d])}
               /\ \A e \in Ids \ {d} :
                     /\ descriptors'[e] = descriptors[e]
                     /\ Completions(descriptors'[e]) = Completions(descriptors[e])

\* C34: descriptors are processed independently: under any interleaving of
\* the handler completions of a tick, the processing of descriptor A changes
\* only the allocations and the events of A, and what B ends the tick with
\* does not depend on the order in which the calls of A and B complete.
C34_Independent == [][C34_LocalStep]_vars

\* The first descriptor has ended its second tick with a new allocation
\* while the second one, which failed to create one in the first tick, still
\* waits for a handler call.
C34_Witness ==
    \E d, e \in Ids :
        /\ d /= e
        /\ ticks = 2
        /\ ~descriptors[d].removed /\ ~descriptors[e].removed
        /\ descriptors[d].pc = "idle"
        /\ descriptors[d].t_oks > 0
        /\ Cardinality(DOMAIN descriptors[d].allocations) = 2
        /\ descriptors[e].pc = "schedule"
        /\ descriptors[e].allocations = << >>
        /\ descriptors[e].events /= << >>


(* ------------------------------ C35 ------------------------------------ *)
\* the events of the life of an allocation after it was queued
LifeKinds ==
    {"AllocationStarted", "AllocationFinished", "AllocationFailed",
     "AllocationDisappeared"}

\* In the log of s every event of the life of an allocation comes after the
\* AllocationQueued event of the allocation, and every allocation of the map
\* has its AllocationQueued event.
QueuedFirst(s) ==
    /\ \A i \in DOMAIN s.events :
          s.events[i].kind \in LifeKinds =>
              \E j \in 1 .. (i - 1) :
                  s.events[j] = Event("AllocationQueued", s.events[i].id)
    /\ \A a \in DOMAIN s.allocations :
          \E j \in DOMAIN s.events : s.events[j] = Event("AllocationQueued", a)

\* A log that is not full has dropped no event.
C35_NotFull ==
    \A d \in Ids :
        Len(descriptors[d].events) < EventCap => QueuedFirst(descriptors[d])

\* A step from a log that is not full (the step may fill it, it cannot
\* overflow it) and a step that leaves the log as it is keep the order.
C35_LogStep ==
    \A d \in Ids :
        LET s == descriptors[d]
            u == descriptors'[d]
        IN  /\ Len(s.events) < EventCap => QueuedFirst(u)
            /\ (u.events = s.events /\ QueuedFirst(s)) => QueuedFirst(u)
            /\ Len(u.events) >= Len(s.events)

\* C35: in the event log of a descriptor every AllocationStarted(id),
\* AllocationFinished(id), AllocationFailed(id) or AllocationDisappeared(id)
\* event comes after an AllocationQueued(id) event, and every allocation of
\* the map has an AllocationQueued(id) event, as long as the log has not
\* overflowed.
C35_QueuedComesFirst == []C35_NotFull /\ [][C35_LogStep]_vars

\* A log that has just filled up without dropping an event: the allocation
\* was queued and then found finished, failed or gone.
C35_Witness ==
    \E d \in Ids :
        LET s == descriptors[d]
        IN  /\ Len(s.events) = EventCap
            /\ s.events[1].kind = "AllocationQueued"
            /\ s.events[EventCap].kind \in LifeKinds \ {"AllocationStarted"}
            /\ s.events[EventCap].id = s.events[1].id
            /\ s.t_oks = 0 /\ s.t_errs = 0
            /\ s.t_allocs = 1
            /\ ticks = 2


(* ------------------------------ C36 ------------------------------------ *)
\* A step appends AllocationStarted(a) when it takes the stored status of a
\* from Queued to Running (C12): it must be the first start of a, a was
\* never Running before.
C36_StartStep ==
    \A d \in Ids :
        LET s == descriptors[d]
            u == descriptors'[d]
        IN  \A a \in DOMAIN s.allocations \cap DOMAIN u.allocations :
                ( /\ s.allocations[a].status = "Queued"
                  /\ u.allocations[a].status = "Running"
                  /\ u.events = Logged(s.events, Event("AllocationStarted", a)) )
                => a \notin s.requeued

\* C36: for every allocation id, AllocationStarted(id) is appended to the
\* event log of the descriptor at most once, over any sequence of ticks and
\* any sequence of status answers of the handler.
C36_StartedAtMostOnce == [][C36_StartStep]_vars


(* ------------------------------ C37 ------------------------------------ *)
\* the allocations that the refresh of s queries or has still to query
Queried(s) ==
    s.allocation_ids \cup (IF s.pc = "status" THEN {s.allocation_id} ELSE {})

\* the work that the tick of s has left: the status calls come before the
\* schedule calls, of which there are at most backlog; the future of a
\* removed descriptor ends with the return of the call it awaits
Measure(s) ==
    IF s.removed THEN (IF s.pc = "idle" THEN 0 ELSE 1)
    ELSE (s.info.backlog + 1) * Cardinality(Queried(s))
            + s.iterations_left + (IF s.pc = "schedule" THEN 1 ELSE 0)

TickRunning == \E d \in Ids : descriptors[d].pc /= "idle"

TickIdle == \A d \in Ids : descriptors[d].pc = "idle"

\* The calls of a tick are bounded when the tick starts: the allocations to
\* query are active ones of the map, and the schedule_allocation calls made
\* and left are at most backlog - queued.
C37_Bounds ==
    \A d \in Ids :
        LET s == descriptors[d]
        IN  /\ ~s.removed => Queried(s) \subseteq active_allocations(s)
            /\ s.t_scheduled => s.t_calls + s.iterations_left <= CallLimit(s)
            /\ s.pc = "idle" => Measure(s) = 0

\* The start of a tick takes the active allocations as the ones to query;
\* every later step of the descriptor is the return of a call, which takes
\* the next allocation to query out of the ones left or goes on to the
\* schedule calls, never queries an allocation created in the tick, and
\* leaves less work than there was.
C37_CallStep ==
    \A d \in Ids :
        LET s == descriptors[d]
            u == descriptors'[d]
        IN  /\ (ticks' = ticks + 1 /\ ~s.removed)
                  => Queried(u) = active_allocations(s)
            /\ (ticks' = ticks /\ u /= s /\ u.removed = s.removed)
                  => /\ s.pc /= "idle"
                     /\ Queried(u) \subseteq s.allocation_ids
                     /\ u.allocation_ids \subseteq s.allocation_ids
                     /\ u.pc = "status" => u.allocation_id \notin u.allocation_ids
                     /\ Queried(u) \cap (DOMAIN u.allocations \ DOMAIN s.allocations) = {}
                     /\ Measure(u) < Measure(s)

\* C37: every autoalloc tick terminates provided each handler call returns:
\* for each descriptor the tick makes at most one get_allocation_status call
\* per allocation that was active when the refresh began (an allocation
\* created in the tick is not queried before the next tick) and at most
\* backlog - queued schedule_allocation calls.
C37_TickTerminates ==
    /\ []C37_Bounds
    /\ [][C37_CallStep]_vars
    /\ TickRunning ~> TickIdle

\* The second tick of a descriptor has ended: it has queried its allocation,
\* found it running and created another one.
C37_Witness ==
    /\ ticks = 2
    /\ TickIdle
    /\ \E d \in Ids :
          LET s == descriptors[d]
          IN  /\ ~s.removed
              /\ s.t_allocs = 1
              /\ s.t_calls = 1
              /\ s.t_oks = 1
              /\ Cardinality(active_allocations(s)) = 2


(* ------------------------------ C38 ------------------------------------ *)
\* the registrations that are live with the token t
LiveWith(t) == { i \in DOMAIN lc_state.live : lc_state.live[i].token = t }

\* The registry and the live registrations: no two live registrations share
\* a token, check_token finds exactly the live registrations, an unknown
\* token is unregistered without a change and a connection with an unknown
\* token ends with "Invalid token" and no task id for the data-node handler.
C38_Registry ==
    /\ \A t \in Tokens :
          /\ Cardinality(LiveWith(t)) <= 1
          /\ check_token(lc_state, t) /= NoRegistration <=> LiveWith(t) /= {}
          /\ \A i \in LiveWith(t) :
                check_token(lc_state, t) = lc_state.live[i].registration
    /\ \A t \in Tokens \ DOMAIN lc_state.registered_tokens :
          /\ LiveWith(t) = {}
          /\ unregister_token(lc_state, t) = lc_state
          /\ handle_connection(lc_state, t) =
                [lc_state EXCEPT !.connection =
                    [token |-> t, result |-> "Invalid token",
                     task_id |-> NoRegistration]]
    /\ lc_state.connection.result = "datanode"
          <=> lc_state.connection.task_id /= NoRegistration

\* A step that registers a task returns a token that was no key of the
\* registry; a step that ends a connection reaches the data-node handler
\* exactly if the token of the intro message is registered.
C38_TokenStep ==
    /\ Len(lc_state'.live) > Len(lc_state.live) =>
          LET r == lc_state'.live[Len(lc_state'.live)]
          IN  /\ lc_state'.live = Append(lc_state.live, r)
              /\ r.token \notin DOMAIN lc_state.registered_tokens
              /\ DOMAIN lc_state'.registered_tokens
                     = DOMAIN lc_state.registered_tokens \cup {r.token}
              /\ lc_state'.registered_tokens[r.token] = r.registration
              /\ \A x \in DOMAIN lc_state.registered_tokens :
                    lc_state'.registered_tokens[x] = lc_state.registered_tokens[x]
    /\ lc_state'.connection /= lc_state.connection =>
          /\ lc_state'.registered_tokens = lc_state.registered_tokens
          /\ lc_state'.live = lc_state.live
          /\ lc_state'.connection.result = "datanode"
                <=> lc_state'.connection.token \in DOMAIN lc_state.registered_tokens
          /\ lc_state'.connection.result = "Invalid token"
                <=> lc_state'.connection.token \in Tokens \ DOMAIN lc_state.registered_tokens

\* C38: a token identifies exactly one live registration: register_task
\* returns a token that is no key of the registry at the time of the call,
\* check_token(t) returns a registration if and only if t was returned by
\* register_task and not unregistered since, unregister_token of an unknown
\* token changes nothing, and a connection with an unregistered token ends
\* with "Invalid token" without reaching the data-node handler.
C38_TokensIdentify == []C38_Registry /\ [][C38_TokenStep]_vars

\* Two registrations are live, and the last connection came with a token
\* that is not registered and ended with "Invalid token".
C38_Witness ==
    /\ Len(lc_state.live) = 2
    /\ lc_state.connection.result = "Invalid token"
    /\ lc_state.connection.token \in Tokens \ DOMAIN lc_state.registered_tokens
    /\ lc_state.live[1].registration = lc_state.live[2].registration


(* ------------------------------ C39 ------------------------------------ *)
\* the largest id of the ids, 0 if there is none
Largest(ids) ==
    IF ids = {} THEN 0 ELSE CHOOSE m \in ids : \A x \in ids : x <= m

\* the explicit ids of the file
Explicit(tasks) == { tasks[i] : i \in DOMAIN tasks } \ {NoId}

\* C39: when a job file lists individual tasks, every task without an
\* explicit id gets an id strictly greater than the largest explicit id of
\* the file (from 1 on when there is none) and than every id assigned
\* before it, so that the assigned ids collide neither with explicit ids nor
\* with each other, and a task with an explicit id keeps it.
C39_AssignedIdsAreFresh ==
    /\ jobfile.pc /= "panic"
    /\ jobfile.pc = "built" =>
          /\ Len(jobfile.ids) = Len(jobfile.tasks)
          /\ \A i \in DOMAIN jobfile.tasks :
                IF jobfile.tasks[i] /= NoId THEN jobfile.ids[i] = jobfile.tasks[i]
                ELSE /\ jobfile.ids[i] > Largest(Explicit(jobfile.tasks))
                     /\ jobfile.ids[i] >= 1
                     /\ jobfile.ids[i] \notin Explicit(jobfile.tasks)
                     /\ \A j \in 1 .. (i - 1) :
                           jobfile.tasks[j] = NoId => jobfile.ids[j] < jobfile.ids[i]

====
